---- MODULE Spec2Model ----
(***************************************************************************)
(* A model of github.com/YLonely/sqldb: the schema mapper (NewModel,       *)
(* parseColumn, iterateFields), the option algebra (newOpOption, In,       *)
(* NotIn, FuzzyIn, Update, Sort), the join composer (Join, LeftJoin) and   *)
(* the executor (Get, List, Update, Delete) in front of a relational       *)
(* backend.  Go strings are TLA+ strings, concatenated with \o.            *)
(***************************************************************************)
EXTENDS Integers, Sequences, FiniteSets, Bags, TLC

VARIABLES
    mL,      \* the Model built for the left record type (in Spec: User)
    mR,      \* the Model built for the right record type (in Spec: Relation)
    mJ,      \* the Model returned by Join / LeftJoin
    opCall,  \* SpecOption: the last call of an operator method and its outcome
    heap,    \* the arrays behind the slices of the caller
    vopt,    \* SpecValues: the option In / NotIn / FuzzyIn returned
    got,     \* SpecValues: the slice GetValues returned to the caller
    backend, \* Spec: the tables of the database
    res,     \* Spec: the last operation, its inputs and what the caller got
    held,    \* Spec: what the caller keeps of Columns() or ColumnNames()
    gor,     \* SpecConc: the goroutines running queries through one Model
    txs      \* SpecTx: the open transactions, outermost first

mapperVars == <<mL, mR, mJ>>

optionVars == <<opCall>>

valuesVars == <<heap, vopt, got>>

execVars == <<backend, res, held>>

runVars == <<gor, txs>>

(***************************************************************************)
(* Bounds                                                                  *)
(***************************************************************************)
\* Deepest nesting of generated record types.
MaxDepth == 2

\* Longest slice a caller hands to In / NotIn / FuzzyIn.
MaxSliceLen == 2

(***************************************************************************)
(* reflect: record types.  A struct type is its package, its name and the  *)
(* sequence of its fields in declaration order; a field is a               *)
(* reflect.StructField with the gorm tag already split into settings       *)
(* (gormschema.ParseTagSetting upper-cases the keys and gives a key with   *)
(* no value the key itself as value).                                      *)
(***************************************************************************)
Tag(column, ser, embedded, prefix) ==
    [COLUMN |-> column, SERIALIZER |-> ser, EMBEDDED |-> embedded, EMBEDDEDPREFIX |-> prefix]

NoTag == Tag("", "", "", "")

\* a type that is neither a struct nor a column (int, string, a pointer, ...)
ScalarT(name) == [kind |-> "scalar", pkg |-> "", name |-> name, elem |-> name, fields |-> <<>>, join |-> FALSE]

StructT(pkg, name, fields) ==
    [kind |-> "struct", pkg |-> pkg, name |-> name, elem |-> "", fields |-> fields, join |-> FALSE]

\* reflect.StructField: PkgPath is empty for an exported field.
Field(name, pkgPath, anonymous, tag, type) ==
    [Name |-> name, PkgPath |-> pkgPath, Anonymous |-> anonymous, Tag |-> tag, Type |-> type]

Exported(name, tag, type) == Field(name, "", FALSE, tag, type)

\* sqldb.ColumnValue[elem]: the one field V
ColumnValueT(elem) ==
    [kind |-> "ColumnValue", pkg |-> "sqldb", name |-> "ColumnValue", elem |-> elem,
     fields |-> <<Exported("V", NoTag, ScalarT(elem))>>, join |-> FALSE]

\* sqldb.ColumnName: the fields table and Name
ColumnNameT ==
    [kind |-> "ColumnName", pkg |-> "sqldb", name |-> "ColumnName", elem |-> "",
     fields |-> <<Field("table", "sqldb", FALSE, NoTag, ScalarT("string")),
                  Exported("Name", NoTag, ScalarT("string"))>>, join |-> FALSE]

\* sqldb.Column[elem]: a struct that embeds ColumnValue[elem] and ColumnName
ColumnT(elem) ==
    [kind |-> "Column", pkg |-> "sqldb", name |-> "Column", elem |-> elem,
     fields |-> <<Field("ColumnValue", "", TRUE, NoTag, ColumnValueT(elem)),
                  Field("ColumnName", "", TRUE, NoTag, ColumnNameT)>>, join |-> FALSE]

\* sqldb.PtrColumn[elem]: a struct that embeds ColumnValue[*elem] and ColumnName
PtrColumnT(elem) ==
    [kind |-> "PtrColumn", pkg |-> "sqldb", name |-> "PtrColumn", elem |-> elem,
     fields |-> <<Field("ColumnValue", "", TRUE, NoTag, ColumnValueT(elem)),
                  Field("ColumnName", "", TRUE, NoTag, ColumnNameT)>>, join |-> FALSE]

\* reflect.Kind is Struct: the declared structs and the column types
IsStructKind(t) == t.kind \in {"struct", "Column", "PtrColumn", "ColumnValue", "ColumnName"}

\* a walker that takes every field for exported
IsExportedAny(sf) == TRUE

\* reflect.StructField.IsExported
IsExported(sf) == sf.PkgPath = ""

\* reflect.Type.Name: the name without the package
TypeName(t) == t.name

(***************************************************************************)
(* The record types of the tests (src/model_test.go) and two more that a   *)
(* caller may declare: a tree node whose columns are called Left and       *)
(* Right, and a second type called User in another package.                *)
(***************************************************************************)
TEmbedded == StructT("sqldb", "Embedded", <<Exported("Weight", NoTag, ColumnT("uint"))>>)

TExtraInner == StructT("sqldb", "ExtraInner", <<Exported("Data", NoTag, ColumnT("uint"))>>)

TExtra ==
    StructT("sqldb", "Extra",
        << Exported("Inner", Tag("", "", "EMBEDDED", ""), TExtraInner),
           Exported("Email", NoTag, ColumnT("string")) >>)

TUser ==
    StructT("sqldb", "User",
        << Exported("ID", Tag("id", "", "", ""), ColumnT("uint64")),
           Exported("Name", Tag("user_name", "", "", ""), ColumnT("string")),
           Exported("Age", NoTag, ColumnT("int")),
           Exported("Address", NoTag, PtrColumnT("string")),
           Exported("Status", Tag("", "json", "", ""), ColumnT("Status")),
           Field("Embedded", "", TRUE, Tag("", "", "", "embedded_"), TEmbedded),
           Exported("Extra", Tag("", "", "EMBEDDED", "extra_"), TExtra),
           Exported("CreatedAt", NoTag, ColumnT("time.Time")),
           Exported("DeletedAt", NoTag, ColumnT("gorm.DeletedAt")) >>)

TRelation ==
    StructT("sqldb", "Relation",
        << Exported("ID", Tag("id", "", "", ""), ColumnT("uint64")),
           Exported("Name", NoTag, ColumnT("string")),
           Exported("UserName", NoTag, ColumnT("string")),
           Exported("Age", NoTag, ColumnT("int")) >>)

TNode ==
    StructT("app", "Node",
        << Exported("ID", Tag("id", "", "", ""), ColumnT("uint64")),
           Exported("Left", NoTag, ColumnT("uint64")),
           Exported("Right", NoTag, ColumnT("uint64")) >>)

TOtherUser ==
    StructT("other", "User",
        << Exported("ID", Tag("id", "", "", ""), ColumnT("uint64")),
           Exported("Name", NoTag, ColumnT("string")) >>)

\* a record type of another package over the table users: the status read
\* and written as raw JSON
TRawUser ==
    StructT("raw", "User",
        << Exported("ID", Tag("id", "", "", ""), ColumnT("uint64")),
           Exported("Age", NoTag, ColumnT("int")),
           Exported("Status", Tag("", "json", "", ""), ColumnT("json.RawMessage")),
           Exported("DeletedAt", NoTag, ColumnT("gorm.DeletedAt")) >>)

(***************************************************************************)
(* A type parameter T is named by a key: a declared type by its            *)
(* identifier, a generated type by its levels and leaf, JoinedEntity[L, R]  *)
(* by the keys of L and R.  TypeOf gives the reflect.Type of a key.        *)
(***************************************************************************)
AppKey(id) == [ctor |-> "app", id |-> id, levels |-> <<>>, leaf |-> ""]

GenKey(levels, leaf) == [ctor |-> "gen", id |-> "app.Rec", levels |-> levels, leaf |-> leaf]

JoinKey(L, R) == [ctor |-> "join", id |-> "sqldb.JoinedEntity", levels |-> <<L, R>>, leaf |-> ""]

ScalarKey(id) == [ctor |-> "scalar", id |-> id, levels |-> <<>>, leaf |-> ""]

KUser == AppKey("sqldb.User")
KRelation == AppKey("sqldb.Relation")
KNode == AppKey("app.Node")
KOtherUser == AppKey("other.User")
KRawUser == AppKey("raw.User")

AppTypes == {KUser, KRelation, KNode, KOtherUser}

AppType(id) ==
    CASE id = "sqldb.User" -> TUser
      [] id = "sqldb.Relation" -> TRelation
      [] id = "app.Node" -> TNode
      [] id = "other.User" -> TOtherUser
      [] id = "raw.User" -> TRawUser

(***************************************************************************)
(* Generated record types: a chain of nested structs, MaxDepth deep at     *)
(* most, each level embedded or not and with or without a prefix, ending   *)
(* in one Column field with or without a column override.                  *)
(***************************************************************************)
Prefixes == {"", "a_", "b_"}

\* <<Anonymous, EMBEDDED setting>> of a nested struct field
EmbedStyles == {<<TRUE, "">>, <<FALSE, "EMBEDDED">>, <<FALSE, "">>}

\* a level: <<Anonymous, EMBEDDED setting, EMBEDDEDPREFIX setting>>
LevelStyles == { <<st[1], st[2], pre>> : st \in EmbedStyles, pre \in Prefixes }

\* the column override of the leaf, or none
LeafColumns == {"", "leaf_col"}

RECURSIVE GenType(_, _)
GenType(levels, leaf) ==
    IF Len(levels) = 0
    THEN StructT("app", "Rec", <<Exported("Leaf", Tag(leaf, "", "", ""), ColumnT("int"))>>)
    ELSE LET lv == Head(levels)
         IN  StructT("app", "Rec",
                 << Field(IF lv[1] THEN "Rec" ELSE "Sub", "", lv[1],
                          Tag("", "", lv[2], lv[3]), GenType(Tail(levels), leaf)) >>)

(***************************************************************************)
(* Declared document types: a column behind a serializer or none, exported *)
(* or not, a plain field, and a nested struct, exported or not and         *)
(* embedded or not, with an exported column behind a serializer or none,   *)
(* an unexported column and a pointer.                                     *)
(***************************************************************************)
\* the serializer a field names: none, the registered one, an unknown one
SerializerNames == {"", "json", "xml"}

\* the package path of a field that is not exported
Unexported(name, anonymous, tag, type) == Field(name, "app", anonymous, tag, type)

DocSub(ser) ==
    StructT("app", "Sub",
        << Exported("Name", Tag("", ser, "", ""), ColumnT("string")),
           Unexported("age", FALSE, NoTag, ColumnT("int")),
           Exported("Next", NoTag, ScalarT("*Sub")) >>)

\* shape: the Status column is exported, the nested struct is exported, the
\* nested struct is embedded, the serializer its column names
DocType(shape, ser) ==
    StructT("app", "Doc",
        << Exported("ID", Tag("id", "", "", ""), ColumnT("uint64")),
           IF shape[1] THEN Exported("Status", Tag("", ser, "", ""), ColumnT("Status"))
           ELSE Unexported("status", FALSE, Tag("", ser, "", ""), ColumnT("Status")),
           Exported("Count", NoTag, ScalarT("int")),
           IF shape[2] THEN Field("Sub", "", shape[3], Tag("", "", "", "s_"), DocSub(shape[4]))
           ELSE Unexported("sub", shape[3], Tag("", "", "", "s_"), DocSub(shape[4])) >>)

DocKey(shape, ser) == [ctor |-> "decl", id |-> "app.Doc", levels |-> shape, leaf |-> ser]

DocTypes ==
    { DocKey(<<status, sub, embedded, inner>>, ser) :
        status \in BOOLEAN, sub \in BOOLEAN, embedded \in BOOLEAN,
        inner \in SerializerNames, ser \in SerializerNames }

GeneratedTypes ==
    { GenKey(levels, leaf) :
        levels \in UNION { [1..d -> LevelStyles] : d \in 0..MaxDepth }, leaf \in LeafColumns }

(***************************************************************************)
(* gorm's NamingStrategy (snake case; table names pluralised).             *)
(***************************************************************************)
NamingColumnName(fieldName) ==
    CASE fieldName = "ID" -> "id"
      [] fieldName = "Name" -> "name"
      [] fieldName = "UserName" -> "user_name"
      [] fieldName = "Age" -> "age"
      [] fieldName = "Address" -> "address"
      [] fieldName = "Status" -> "status"
      [] fieldName = "Weight" -> "weight"
      [] fieldName = "Email" -> "email"
      [] fieldName = "Data" -> "data"
      [] fieldName = "CreatedAt" -> "created_at"
      [] fieldName = "DeletedAt" -> "deleted_at"
      [] fieldName = "Left" -> "left"
      [] fieldName = "Right" -> "right"
      [] fieldName = "Leaf" -> "leaf"
      [] OTHER -> "?"

NamingTableName(typeName) ==
    CASE typeName = "User" -> "users"
      [] typeName = "Relation" -> "relations"
      [] typeName = "Node" -> "nodes"
      [] typeName = "Rec" -> "recs"
      [] typeName = "Doc" -> "docs"
      [] OTHER -> "?"

(***************************************************************************)
(* ColumnName (src/sqldb.go)                                               *)
(***************************************************************************)
ColumnNameOf(table, name) == [table |-> table, Name |-> name]

NewColumnName(name) == ColumnNameOf("", name)

\* ColumnName.String
String(cn) == cn.Name

\* ColumnName.Full
Full(cn) == IF cn.table = "" THEN cn.Name ELSE cn.table \o "." \o cn.Name

\* setColumnName of a pointer to ColumnName
setColumnName(cn, table, name) == [cn EXCEPT !.table = table, !.Name = name]

\* strings.Join
RECURSIVE StringsJoin(_, _)
StringsJoin(elems, sep) ==
    IF Len(elems) = 0 THEN ""
    ELSE IF Len(elems) = 1 THEN elems[1]
    ELSE elems[1] \o sep \o StringsJoin(Tail(elems), sep)

FieldNames(path) == [i \in 1..Len(path) |-> path[i].Name]

FieldPath(path) == StringsJoin(FieldNames(path), ".")

(***************************************************************************)
(* Go values.  A value is its type, and a number (i) or a text (s, the     *)
(* sequence of its characters); a struct value such as Status is its       *)
(* text.  NoValue is the nil interface.                                    *)
(***************************************************************************)
IntV(t, i) == [t |-> t, i |-> i, s |-> <<>>]

StrV(s) == [t |-> "string", i |-> 0, s |-> s]

StatusV(s) == [t |-> "Status", i |-> 0, s |-> s]

\* a json.RawMessage: the text it holds
RawV(s) == [t |-> "json.RawMessage", i |-> 0, s |-> s]

NoValue == [t |-> "invalid", i |-> 0, s |-> <<>>]

IntegerTypes == {"int", "uint8", "uint", "uint64"}

\* reflect.Value.CanConvert for the types of the model: integers convert to
\* each other and to string (a rune), every type converts to itself
CanConvert(from, to) ==
    \/ from \in IntegerTypes /\ to \in IntegerTypes \cup {"string"}
    \/ from # "invalid" /\ from = to

\* string(rune(i))
RuneString(i) ==
    CASE i = 65 -> <<"A">>
      [] i = 66 -> <<"B">>
      [] i = 7 -> <<"\\a">>
      [] OTHER -> <<"\\uFFFD">>

\* reflect.Value.Convert; uint8 wraps, the wider types hold every number of
\* the model unchanged (the model converts no negative number to uint or
\* uint64)
Convert(val, to) ==
    IF val.t \in IntegerTypes /\ to = "uint8" THEN IntV(to, val.i % 256)
    ELSE IF val.t \in IntegerTypes /\ to \in IntegerTypes THEN IntV(to, val.i)
    ELSE IF val.t \in IntegerTypes /\ to = "string" THEN StrV(RuneString(val.i))
    ELSE [val EXCEPT !.t = to]

(***************************************************************************)
(* Column[T], PtrColumn[T] and the operands of the operator methods        *)
(***************************************************************************)
\* a Column[elem] or PtrColumn[elem] value: ColumnValue and ColumnName
ColumnOf(kind, elem, cn, v) == [form |-> kind, t |-> elem, val |-> v, name |-> cn]

\* NewColumn, NewPtrColumn: no column name yet
NewColumn(v) == ColumnOf("Column", v.t, NewColumnName(""), v)

NewPtrColumn(v) == ColumnOf("PtrColumn", v.t, NewColumnName(""), v)

\* a plain value handed as `any`
PlainOperand(v) == [form |-> "value", t |-> v.t, val |-> v, name |-> NewColumnName("")]

\* the nil interface handed as `any`
NilOperand == [form |-> "nil", t |-> "invalid", val |-> NoValue, name |-> NewColumnName("")]

\* the operand has the method reflectValue (Column and PtrColumn do)
HasReflectValue(v) == v.form \in {"Column", "PtrColumn"}

(***************************************************************************)
(* JoinedEntity (src/join.go)                                              *)
(***************************************************************************)
JoinedEntityT(L, R) ==
    [kind |-> "struct", pkg |-> "sqldb", name |-> "JoinedEntity", elem |-> "",
     fields |-> << Exported("Left", Tag("", "", "EMBEDDED", ""), L),
                   Exported("Right", Tag("", "", "EMBEDDED", ""), R) >>,
     join |-> TRUE]

RECURSIVE TypeOf(_)
TypeOf(k) ==
    CASE k.ctor = "app" -> AppType(k.id)
      [] k.ctor = "gen" -> GenType(k.levels, k.leaf)
      [] k.ctor = "decl" -> DocType(k.levels, k.leaf)
      [] k.ctor = "join" -> JoinedEntityT(TypeOf(k.levels[1]), TypeOf(k.levels[2]))
      [] OTHER -> ScalarT(k.id)

\* JoinedEntity._left, JoinedEntity._right: the two components
JoinLeft(T) == T.fields[1].Type

JoinRight(T) == T.fields[2].Type

\* JoinedEntity._tableName
JoinTableName(T) == "Join" \o TypeName(JoinLeft(T)) \o TypeName(JoinRight(T))

(***************************************************************************)
(* iterateFields (src/utils.go).  fi describes the callback: NewModel's    *)
(* dives into every field that is no columnNameSetter, scan's into every   *)
(* field whose path the schema does not know.  The result is the sequence  *)
(* of paths the callback is called with, in order.                         *)
(***************************************************************************)
\* *Column[T], *PtrColumn[T] and *ColumnName have the method setColumnName
IsColumnNameSetter(t) == t.kind \in {"Column", "PtrColumn", "ColumnName"}

FiNewModel == [fn |-> "NewModel", known |-> {}]

FiScan(known) == [fn |-> "scan", known |-> known]

FiDive(fi, path) ==
    IF fi.fn = "NewModel"
    THEN ~IsColumnNameSetter(path[Len(path)].Type)
    ELSE FieldPath(path) \notin fi.known

RECURSIVE iterateFields(_, _, _)
iterateFields(t, fi, path) ==
    IF ~IsStructKind(t) THEN <<>>
    ELSE LET visit[i \in 0..Len(t.fields)] ==
                 IF i = 0 THEN <<>>
                 ELSE LET typeField == t.fields[i]
                          p == Append(path, typeField)
                      IN  IF ~IsExported(typeField) THEN visit[i - 1]
                          ELSE visit[i - 1] \o <<p>> \o
                               (IF FiDive(fi, p)
                                THEN iterateFields(typeField.Type, fi, p)
                                ELSE <<>>)
         IN  visit[Len(t.fields)]

\* new(T), a nil *T and a T handed as `any`
New(T) == [pointer |-> TRUE, nil |-> FALSE, type |-> T]

NilPointer(T) == [pointer |-> TRUE, nil |-> TRUE, type |-> T]

NonPointer(T) == [pointer |-> FALSE, nil |-> FALSE, type |-> T]

ErrNotPointer == "object provided is not a ptr or it's nil"

\* a walker that does not check the object it is called on
iterateFieldsOfUnchecked(obj, fi) ==
    [err |-> "", visits |-> iterateFields(obj.type, fi, <<>>)]

\* iterateFields called by its caller: the check of the object, then the
\* walk of the type it points to
iterateFieldsOf(obj, fi) ==
    IF ~obj.pointer \/ obj.nil THEN [err |-> ErrNotPointer, visits |-> <<>>]
    ELSE [err |-> "", visits |-> iterateFields(obj.type, fi, <<>>)]

\* every field of t that holds a ColumnName, exported or not, with its type
RECURSIVE ColumnTypes(_, _)
ColumnTypes(t, path) ==
    IF IsColumnNameSetter(t) THEN {<<FieldPath(path), t>>}
    ELSE IF t.kind # "struct" THEN {}
    ELSE UNION { ColumnTypes(t.fields[i].Type, Append(path, t.fields[i])) :
                 i \in 1..Len(t.fields) }

\* new(T): every column holds the zero ColumnValue and the zero ColumnName
ZeroColumns(T) ==
    LET cts == ColumnTypes(T, <<>>)
    IN  [fp \in {e[1] : e \in cts} |->
            LET ct == (CHOOSE e \in cts : e[1] = fp)[2]
            IN  ColumnOf(ct.kind, ct.elem, NewColumnName(""), NoValue)]

(***************************************************************************)
(* parseColumn and NewModel (src/unnamed/part_003)                         *)
(***************************************************************************)
\* the registered serializers
serializers == {"json"}

\* the prefixes of the ancestors gathered inner to outer
RECURSIVE ParentsPrefixInnerFirst(_)
ParentsPrefixInnerFirst(parents) ==
    IF Len(parents) = 0 THEN ""
    ELSE LET pf == parents[Len(parents)]
             rest == ParentsPrefixInnerFirst(SubSeq(parents, 1, Len(parents) - 1))
             p == pf.Tag.EMBEDDEDPREFIX
         IN  IF p # "" /\ (pf.Tag.EMBEDDED # "" \/ pf.Anonymous)
             THEN p \o rest
             ELSE rest

\* a loop that takes the prefix of every ancestor that declares one
RECURSIVE ParentsPrefixAny(_)
ParentsPrefixAny(parents) ==
    IF Len(parents) = 0 THEN ""
    ELSE ParentsPrefixAny(SubSeq(parents, 1, Len(parents) - 1))
             \o parents[Len(parents)].Tag.EMBEDDEDPREFIX

\* the prefix loop of parseColumn over the parents, outer to inner
RECURSIVE ParentsPrefix(_)
ParentsPrefix(parents) ==
    IF Len(parents) = 0 THEN ""
    ELSE LET pf == parents[Len(parents)]
             rest == ParentsPrefix(SubSeq(parents, 1, Len(parents) - 1))
             p == pf.Tag.EMBEDDEDPREFIX
         IN  IF p # "" /\ (pf.Tag.EMBEDDED # "" \/ pf.Anonymous)
             THEN rest \o p
             ELSE rest

\* a parseColumn that does not read the column setting of the field
parseColumnNamed(path) ==
    [ column |-> ParentsPrefix(SubSeq(path, 1, Len(path) - 1))
                    \o NamingColumnName(path[Len(path)].Name),
      serializer |-> IF path[Len(path)].Tag.SERIALIZER \in serializers
                     THEN path[Len(path)].Tag.SERIALIZER ELSE "",
      panic |-> path[Len(path)].Tag.SERIALIZER # ""
                   /\ path[Len(path)].Tag.SERIALIZER \notin serializers ]

\* a parseColumn that takes an unknown serializer name for none
parseColumnLenient(path) ==
    LET l == Len(path)
        sf == path[l]
        parents == SubSeq(path, 1, l - 1)
        column == IF sf.Tag.COLUMN = "" THEN NamingColumnName(sf.Name) ELSE sf.Tag.COLUMN
        serializerName == sf.Tag.SERIALIZER
    IN  [ column |-> ParentsPrefix(parents) \o column,
          serializer |-> IF serializerName \in serializers THEN serializerName ELSE "",
          panic |-> FALSE ]

parseColumn(path) ==
    LET l == Len(path)
        sf == path[l]
        parents == SubSeq(path, 1, l - 1)
        column == IF sf.Tag.COLUMN = "" THEN NamingColumnName(sf.Name) ELSE sf.Tag.COLUMN
        serializerName == sf.Tag.SERIALIZER
    IN  [ column |-> ParentsPrefix(parents) \o column,
          serializer |-> IF serializerName \in serializers THEN serializerName ELSE "",
          panic |-> serializerName # "" /\ serializerName \notin serializers ]

NoInitial ==
    [set |-> FALSE, conditions |-> <<>>, selectedColumns |-> <<>>, leftJoin |-> FALSE,
     rightTable |-> "", leftTable |-> ""]

NoModel ==
    [built |-> FALSE, panic |-> FALSE, T |-> ScalarKey(""), columns |-> <<>>,
     columnSerializers |-> <<>>, fieldPathToColumn |-> <<>>, tableName |-> "",
     joined |-> FALSE, config |-> NoInitial]

\* the callback NewModel hands to iterateFields, applied to one path
NewModelVisit(m, path, leftTableName, rightTableName) ==
    LET fieldNames == FieldNames(path)
        sf == path[Len(path)]
        table == IF m.joined
                 THEN (IF \E i \in 1..Len(fieldNames) : fieldNames[i] = "Left"
                       THEN leftTableName ELSE rightTableName)
                 ELSE m.tableName
        pc == parseColumn(path)
        fp == FieldPath(path)
        cn == IF m.joined
              THEN setColumnName(m.columns[fp].name, "", table \o "." \o pc.column)
              ELSE setColumnName(m.columns[fp].name, table, pc.column)
    IN  IF m.panic \/ ~IsColumnNameSetter(sf.Type) THEN m
        ELSE IF pc.panic THEN [m EXCEPT !.panic = TRUE]
        ELSE [m EXCEPT
                !.columns = [m.columns EXCEPT ![fp].name = cn],
                !.columnSerializers =
                    IF pc.serializer # ""
                    THEN (String(cn) :> pc.serializer) @@ m.columnSerializers
                    ELSE m.columnSerializers,
                !.fieldPathToColumn = (fp :> fp) @@ m.fieldPathToColumn]

\* a NewModel whose table name an option may set
NewModelOpts(K, cfg) ==
    LET Build(T) ==
            IF ~IsStructKind(T) THEN [NoModel EXCEPT !.panic = TRUE, !.T = K]
            ELSE
            LET joined == T.join
                tableName == IF cfg.set THEN cfg.leftTable
                             ELSE IF joined THEN JoinTableName(T)
                             ELSE NamingTableName(TypeName(T))
                leftTableName == IF joined THEN NamingTableName(TypeName(JoinLeft(T))) ELSE ""
                rightTableName == IF joined THEN NamingTableName(TypeName(JoinRight(T))) ELSE ""
                m0 == [built |-> TRUE, panic |-> FALSE, T |-> K, columns |-> ZeroColumns(T),
                       columnSerializers |-> <<>>, fieldPathToColumn |-> <<>>,
                       tableName |-> tableName, joined |-> joined, config |-> cfg]
                walked == iterateFieldsOf(New(T), FiNewModel)
                visits == walked.visits
                walk[i \in 0..Len(visits)] ==
                    IF i = 0 THEN m0
                    ELSE NewModelVisit(walk[i - 1], visits[i], leftTableName, rightTableName)
            IN  IF walked.err # "" THEN [NoModel EXCEPT !.panic = TRUE, !.T = K]
                ELSE walk[Len(visits)]
    IN  Build(TypeOf(K))

NewModel(K, cfg) ==
    LET Build(T) ==
            IF ~IsStructKind(T) THEN [NoModel EXCEPT !.panic = TRUE, !.T = K]
            ELSE
            LET joined == T.join
                tableName == IF joined THEN JoinTableName(T)
                             ELSE NamingTableName(TypeName(T))
                leftTableName == IF joined THEN NamingTableName(TypeName(JoinLeft(T))) ELSE ""
                rightTableName == IF joined THEN NamingTableName(TypeName(JoinRight(T))) ELSE ""
                m0 == [built |-> TRUE, panic |-> FALSE, T |-> K, columns |-> ZeroColumns(T),
                       columnSerializers |-> <<>>, fieldPathToColumn |-> <<>>,
                       tableName |-> tableName, joined |-> joined, config |-> cfg]
                walked == iterateFieldsOf(New(T), FiNewModel)
                visits == walked.visits
                walk[i \in 0..Len(visits)] ==
                    IF i = 0 THEN m0
                    ELSE NewModelVisit(walk[i - 1], visits[i], leftTableName, rightTableName)
            IN  IF walked.err # "" THEN [NoModel EXCEPT !.panic = TRUE, !.T = K]
                ELSE walk[Len(visits)]
    IN  Build(TypeOf(K))

\* model.Table
Table(m) == m.tableName

\* model.Columns: a copy of *m.columns
Columns(m) == m.columns

\* GetColumnName through the pointer the schema keeps for a field path
GetColumnName(m, fp) == m.columns[m.fieldPathToColumn[fp]].name

(***************************************************************************)
(* The option algebra (src/sqldb.go)                                       *)
(***************************************************************************)
OpEq == "="
OpNe == "!="
OpGt == ">"
OpLt == "<"
OpGte == ">="
OpLte == "<="

QueryOps == {OpEq, OpNe, OpGt, OpLt, OpGte, OpLte}

FilterOptionTypeOpQuery == "OpQuery"
FilterOptionTypeRangeQuery == "RangeQuery"
FilterOptionTypeFuzzyQuery == "FuzzyQuery"

\* the nil OpJoinOption / OpQueryOption inside an Either
NilJoinOption == [nil |-> TRUE, left |-> NewColumnName(""), right |-> NewColumnName(""), op |-> ""]

NilQueryOption == [nil |-> TRUE, name |-> NewColumnName(""), value |-> NoValue, op |-> ""]

newOpJoinOption(left, right, op) == [nil |-> FALSE, left |-> left, right |-> right, op |-> op]

newOption(name, value) == [name |-> name, value |-> value]

newOpQueryOption(name, v, op) ==
    [nil |-> FALSE, name |-> newOption(name, v).name, value |-> newOption(name, v).value, op |-> op]

\* mo.Left, mo.Right
EitherLeft(l) == [isLeft |-> TRUE, left |-> l, right |-> NilQueryOption]

EitherRight(r) == [isLeft |-> FALSE, left |-> NilJoinOption, right |-> r]

\* an OpOption is a FilterOption whose kind is "OpOption"; the range and
\* fuzzy options below are the other FilterOptions
OpOptionOf(either) ==
    [kind |-> "OpOption", either |-> either, name |-> NewColumnName(""),
     values |-> [arr |-> 0, len |-> 0], exclude |-> FALSE]

NoOption == OpOptionOf([isLeft |-> FALSE, left |-> NilJoinOption, right |-> NilQueryOption])

\* the outcome of a call: it returns a value or panics
Returned(v) == [panic |-> FALSE, value |-> v]

Panicked == [panic |-> TRUE, value |-> NoOption]

\* newOpOption storing the operand as given, without rv.Convert(dest)
newOpOptionUnconverted(T, v, op, name) ==
    IF ~CanConvert(v.t, T) THEN Panicked
    ELSE IF HasReflectValue(v)
    THEN Returned(OpOptionOf(EitherLeft(newOpJoinOption(name, v.name, op))))
    ELSE Returned(OpOptionOf(EitherRight(newOpQueryOption(name, v.val, op))))

\* newOpOption without the rv.CanConvert(dest) test
newOpOptionUnchecked(T, v, op, name) ==
    IF HasReflectValue(v)
    THEN Returned(OpOptionOf(EitherLeft(newOpJoinOption(name, v.name, op))))
    ELSE Returned(OpOptionOf(EitherRight(newOpQueryOption(name, Convert(v.val, T), op))))

newOpOption(T, v, op, name) ==
    LET columnType == HasReflectValue(v)
        \* rv: the operand, or the zero value of a column operand's type
        rvType == v.t
    IN  IF ~CanConvert(rvType, T) THEN Panicked
        ELSE IF columnType
        THEN Returned(OpOptionOf(EitherLeft(newOpJoinOption(name, v.name, op))))
        ELSE Returned(OpOptionOf(EitherRight(newOpQueryOption(name, Convert(v.val, T), op))))

\* Either.MustLeft, Either.MustRight: the value, or a panic
\* a MustLeft that hands out the empty join option of a literal compare
MustLeftLenient(opt) == Returned(opt.either.left)

MustLeft(opt) == IF opt.either.isLeft THEN Returned(opt.either.left) ELSE [panic |-> TRUE, value |-> NilJoinOption]

MustRight(opt) == IF ~opt.either.isLeft THEN Returned(opt.either.right) ELSE [panic |-> TRUE, value |-> NilQueryOption]

\* Column.EQ .. Column.LTE and PtrColumn.EQ .. PtrColumn.LTE
ColumnCompare(c, op, value) == newOpOption(c.t, value, op, c.name)

\* a slice: the array it points into and its length
SliceOf(arr, len) == [arr |-> arr, len |-> len]

newValuesOption(name, values) == [name |-> name, values |-> values]

newRangeQueryOption(name, values, exclude) ==
    [kind |-> "RangeQuery", either |-> NoOption.either,
     name |-> newValuesOption(name, values).name,
     values |-> newValuesOption(name, values).values, exclude |-> exclude]

newFuzzyQueryOption(name, values) ==
    [kind |-> "FuzzyQuery", either |-> NoOption.either,
     name |-> newValuesOption(name, values).name,
     values |-> newValuesOption(name, values).values, exclude |-> FALSE]

\* Column.In, Column.NotIn, Column.FuzzyIn (and PtrColumn's)
ColumnIn(c, values) == newRangeQueryOption(c.name, values, FALSE)

ColumnNotIn(c, values) == newRangeQueryOption(c.name, values, TRUE)

ColumnFuzzyIn(c, values) == newFuzzyQueryOption(c.name, values)

\* valuesOption.GetValues: lo.ToAnySlice copies the elements the slice
\* holds when it is called into a new slice
GetValues(opt, mem) == SubSeq(mem[opt.values.arr], 1, opt.values.len)

\* Column.Update
newUpdateOption(name, value) == newOption(name, value)

\* ColumnName.Sort
SortOrderAscending == "asc"
SortOrderDescending == "desc"

ColumnNameSort(cn, order) == [name |-> cn, order |-> order]

\* OpOption.GetFilterOptionType (MustRight panics on a join condition) and
\* the range / fuzzy options' GetFilterOptionType
GetFilterOptionType(opt) ==
    IF opt.kind = "OpOption"
    THEN [panic |-> MustRight(opt).panic,
          type |-> IF MustRight(opt).panic THEN "" ELSE FilterOptionTypeOpQuery]
    ELSE [panic |-> FALSE,
          type |-> IF opt.kind = "RangeQuery" THEN FilterOptionTypeRangeQuery
                   ELSE FilterOptionTypeFuzzyQuery]

(***************************************************************************)
(* Reading a Model's columns                                               *)
(***************************************************************************)
\* m.Columns().<field path>: the Column value of a field, with its name
ModelColumn(m, fp) == Columns(m)[fp]

\* the paths of the columns NewModel named, in declaration order
RECURSIVE SelectSeq2(_, _)
SelectSeq2(paths, keep) ==
    IF Len(paths) = 0 THEN <<>>
    ELSE (IF FieldPath(Head(paths)) \in keep THEN <<FieldPath(Head(paths))>> ELSE <<>>)
         \o SelectSeq2(Tail(paths), keep)

SchemaPaths(m) == SelectSeq2(iterateFields(TypeOf(m.T), FiNewModel, <<>>), DOMAIN m.fieldPathToColumn)

(***************************************************************************)
(* Join, LeftJoin (src/join.go).  A ColumnNameGetter is a pointer to a     *)
(* column of a Model (an entry of ColumnNames()) or a value that carries   *)
(* its name (a field of Columns()).                                        *)
(***************************************************************************)
GetterRef(model, fp) == [byRef |-> TRUE, model |-> model, fp |-> fp, cn |-> NewColumnName("")]

GetterValue(cn) == [byRef |-> FALSE, model |-> "", fp |-> "", cn |-> cn]

NewJoinOptions(selectedColumns, conditions) ==
    [SelectedColumns |-> selectedColumns, Conditions |-> conditions]

\* WithDBInitialFunc(initial): what the closure initial of join captures
WithDBInitialFunc(left, right, selectedColumns, conditions, leftJoin) ==
    [set |-> TRUE, conditions |-> conditions, selectedColumns |-> selectedColumns,
     leftJoin |-> leftJoin, rightTable |-> Table(right),
     leftTable |-> NamingTableName(TypeName(TypeOf(left.T)))]

join(left, right, selectedColumns, conditions, leftJoin) ==
    NewModel(JoinKey(left.T, right.T),
             WithDBInitialFunc(left, right, selectedColumns, conditions, leftJoin))

\* a LeftJoin that drops the selection
LeftJoinBare(left, right, opts) == join(left, right, <<>>, opts.Conditions, TRUE)

LeftJoin(left, right, opts) == join(left, right, opts.SelectedColumns, opts.Conditions, TRUE)

Join(left, right, opts) == join(left, right, opts.SelectedColumns, opts.Conditions, FALSE)

(***************************************************************************)
(* The backend behind *gorm.DB (gorm v1.24.0 over SQL): tables of rows, a  *)
(* row being a function from column names to values.  Strings are          *)
(* sequences of characters.                                                *)
(***************************************************************************)
\* SQL NULL, and the time.Time / gorm.DeletedAt values the backend stamps
NullV == [t |-> "null", i |-> 0, s |-> <<>>]

TimeV(i) == [t |-> "time", i |-> i, s |-> <<>>]

\* json.Marshal of a value of the model, as a string
JsonMarshal(v) ==
    IF v.t = "Status" THEN StrV(<<"{", "Occupation", ":">> \o v.s \o <<"}">>)
    ELSE IF v.t = "json.RawMessage" THEN StrV(v.s)
    ELSE IF v.t = "string" THEN StrV(<<"'">> \o v.s \o <<"'">>)
    ELSE v

\* json.Unmarshal into a Status; other text is an error
JsonUnmarshalStatus(text) ==
    IF Len(text) >= 4 /\ SubSeq(text, 1, 3) = <<"{", "Occupation", ":">> /\ text[Len(text)] = "}"
    THEN [err |-> "", value |-> StatusV(SubSeq(text, 4, Len(text) - 1))]
    ELSE [err |-> "json: cannot unmarshal", value |-> NoValue]

\* json.Valid for the texts of the model: the objects a Status marshals to
JsonValid(text) == JsonUnmarshalStatus(text).err = ""

\* json.Marshal of a RawMessage fails when the text MarshalJSON hands back
\* is no JSON
MarshalJSONFails(v) == v.t = "json.RawMessage" /\ ~JsonValid(v.s)

\* the columns of the tables AutoMigrate creates for User and Relation
TableColumns ==
    [users |-> {"id", "user_name", "age", "address", "status", "embedded_weight",
                "extra_data", "extra_email", "created_at", "deleted_at"},
     relations |-> {"id", "name", "user_name", "age"}]

\* a row of the table users and a row of the table relations
UserRow(id, name, age, occupation) ==
    [c \in TableColumns.users |->
        CASE c = "id" -> IntV("uint64", id)
          [] c = "user_name" -> StrV(name)
          [] c = "age" -> IntV("int", age)
          [] c = "status" -> JsonMarshal(StatusV(occupation))
          [] c = "created_at" -> TimeV(0)
          [] c = "deleted_at" -> NullV
          [] c \in {"embedded_weight", "extra_data"} -> IntV("uint", 0)
          [] c = "extra_email" -> StrV(<<"e">>)
          [] OTHER -> NullV]

RelationRow(id, name, userName, age) ==
    [c \in TableColumns.relations |->
        CASE c = "id" -> IntV("uint64", id)
          [] c = "name" -> StrV(name)
          [] c = "user_name" -> StrV(userName)
          [] OTHER -> IntV("int", age)]

\* the rows the tests start from, shortened
InitialTables ==
    [users |-> <<UserRow(1, <<"a", "l">>, 46, <<"T">>), UserRow(2, <<"b", "o">>, 30, <<"S">>)>>,
     relations |-> <<RelationRow(1, <<"r">>, <<"a", "l">>, 20),
                     RelationRow(2, <<"q">>, <<"z">>, 30)>>]

\* the tables whose rows carry a gorm.DeletedAt column (soft delete)
SoftDeleteTables == {"users"}

\* SQL comparison of two values by a QueryOp; NULL compares to nothing
CharRank(c) ==
    CASE c = "S" -> 1 [] c = "T" -> 2 [] c = "a" -> 3 [] c = "b" -> 4 [] c = "l" -> 5
      [] c = "o" -> 6 [] c = "q" -> 7 [] c = "r" -> 8 [] c = "z" -> 9 [] OTHER -> 0

SqlLess(a, b) ==
    IF a.t \in IntegerTypes \cup {"time"} THEN a.i < b.i
    ELSE \E k \in 1..Len(b.s) :
            /\ \A j \in 1..(k - 1) : j <= Len(a.s) /\ a.s[j] = b.s[j]
            /\ (k > Len(a.s) \/ CharRank(a.s[k]) < CharRank(b.s[k]))

SqlSame(a, b) == a.i = b.i /\ a.s = b.s

SqlCompare(a, op, b) ==
    IF a.t = "null" \/ b.t = "null" THEN FALSE
    ELSE CASE op = OpEq -> SqlSame(a, b)
           [] op = OpNe -> ~SqlSame(a, b)
           [] op = OpGt -> SqlLess(b, a)
           [] op = OpLt -> SqlLess(a, b)
           [] op = OpGte -> ~SqlLess(a, b)
           [] op = OpLte -> ~SqlLess(b, a)
           [] OTHER -> FALSE

\* text LIKE %pattern%
SqlLike(text, pattern) ==
    \E k \in 0..Len(text) :
        k + Len(pattern) <= Len(text) /\ SubSeq(text, k + 1, k + Len(pattern)) = pattern

(***************************************************************************)
(* *gorm.DB as the repository uses it: a statement under construction.     *)
(* Every clause keeps the text the repository formats and, beside it, the  *)
(* terms the text stands for.                                              *)
(***************************************************************************)
\* m.db.WithContext(ctx): a fresh statement
NewSession ==
    [err |-> "", model |-> "", selectSet |-> FALSE, selects |-> <<>>, selectText |-> "",
     joins |-> <<>>,
     wheres |-> <<>>, limit |-> 0, offset |-> 0, orders |-> <<>>]

\* db.Model(new(T)): the table gorm's naming strategy gives the type
GormModel(db, K) == [db EXCEPT !.model = NamingTableName(TypeName(TypeOf(K)))]

\* db.Select(text)
GormSelect(db, text, columns) ==
    [db EXCEPT !.selectSet = TRUE, !.selectText = text, !.selects = columns]

\* db.Joins(text)
GormJoins(db, text, kind, table, query, terms) ==
    [db EXCEPT !.joins = Append(@, [text |-> text, kind |-> kind, table |-> table,
                                    on |-> query, terms |-> terms])]

\* db.Where(query, values...); an empty query without values adds nothing
GormWhere(db, query, connective, conds) ==
    IF query = "" /\ Len(conds) = 0 THEN db
    ELSE [db EXCEPT !.wheres = Append(@, [query |-> query, connective |-> connective,
                                          conds |-> conds])]

GormLimit(db, n) == [db EXCEPT !.limit = n]

GormOffset(db, n) == [db EXCEPT !.offset = n]

GormOrder(db, text, column, order) ==
    [db EXCEPT !.orders = Append(@, [text |-> text, column |-> column, order |-> order])]

\* a ColumnNameGetter read when it is used: the pointer's current name, or
\* the name the value carries
GetterColumnName(g, left, right, joinedModel) ==
    IF ~g.byRef THEN g.cn
    ELSE CASE g.model = "L" -> left.columns[g.fp].name
           [] g.model = "R" -> right.columns[g.fp].name
           [] OTHER -> joinedModel.columns[g.fp].name

\* getColumnName
getColumnName(joined, cn) == IF joined THEN Full(cn) ELSE String(cn)

\* a query whose terms are joined with OR
JoinQueryOr(conditions) ==
    StringsJoin([i \in 1..Len(conditions) |->
                    Full(conditions[i].left) \o " " \o conditions[i].op \o " "
                        \o Full(conditions[i].right)],
                " OR ")

\* the query of the join: a term for every condition, joined with AND
JoinQuery(conditions) ==
    StringsJoin([i \in 1..Len(conditions) |->
                    Full(conditions[i].left) \o " " \o conditions[i].op \o " "
                        \o Full(conditions[i].right)],
                " AND ")

\* the closure initial of join, run by DB(ctx) on every operation; the
\* backquotes around the alias are written as quotes
Initial(db, cfg, left, right, joinedModel) ==
    IF \E i \in 1..Len(cfg.conditions) : MustLeft(cfg.conditions[i]).panic
    THEN [panic |-> TRUE, db |-> db]
    ELSE
    LET conditions == [i \in 1..Len(cfg.conditions) |-> MustLeft(cfg.conditions[i]).value]
        terms == [i \in 1..Len(conditions) |->
                    [left |-> Full(conditions[i].left), op |-> conditions[i].op,
                     right |-> Full(conditions[i].right)]]
        query == JoinQuery(conditions)
        kind == IF cfg.leftJoin THEN "LEFT JOIN" ELSE "INNER JOIN"
        joinText == kind \o " " \o cfg.rightTable \o " on " \o query
        cols == [i \in 1..Len(cfg.selectedColumns) |->
                    Full(GetterColumnName(cfg.selectedColumns[i], left, right, joinedModel))]
        selectText == StringsJoin([i \in 1..Len(cols) |-> cols[i] \o " AS '" \o cols[i] \o "'"], ",")
    IN  [panic |-> FALSE,
         db |-> GormJoins(GormSelect([db EXCEPT !.model = cfg.leftTable], selectText, cols),
                          joinText, kind, cfg.rightTable, query, terms)]

\* model.DB: the session, through dbInitialFunc when the Model has one
ModelDB(m, left, right) ==
    IF m.config.set THEN Initial(NewSession, m.config, left, right, m)
    ELSE [panic |-> FALSE, db |-> NewSession]

(***************************************************************************)
(* The executor's helpers (src/unnamed/part_003): serialize,               *)
(* parseFilterOptions and the applyHelper                                  *)
(***************************************************************************)
\* the values json.Marshal refuses
Unmarshalable == {"chan"}

\* a serialize that hands every value on as it is
serializeNone(m, column, v) == [err |-> "", value |-> v]

\* executor.serialize
serialize(m, column, v) ==
    IF column \in DOMAIN m.columnSerializers
    THEN (IF v.t \in Unmarshalable \/ MarshalJSONFails(v)
          THEN [err |-> "failed to serialize the value of the column " \o column, value |-> NoValue]
          ELSE [err |-> "", value |-> JsonMarshal(v)])
    ELSE [err |-> "", value |-> v]

\* MapErr with serialize as the iteratee: the first error, or all the values
RECURSIVE SerializeAll(_, _, _)
SerializeAll(m, column, vs) ==
    IF Len(vs) = 0 THEN [err |-> "", values |-> <<>>]
    ELSE LET first == serialize(m, column, Head(vs))
             rest == SerializeAll(m, column, Tail(vs))
         IN  IF first.err # "" THEN [err |-> first.err, values |-> <<>>]
             ELSE IF rest.err # "" THEN rest
             ELSE [err |-> "", values |-> <<first.value>> \o rest.values]

\* parseFilterOptions: the options sorted by their type, or a panic
RECURSIVE parseFilterOptions(_)
parseFilterOptions(opts) ==
    IF Len(opts) = 0
    THEN [panic |-> FALSE, opQueryOptions |-> <<>>, rangeQueryOptions |-> <<>>,
          fuzzyQueryOptions |-> <<>>]
    ELSE LET opt == Head(opts)
             type == GetFilterOptionType(opt)
             rest == parseFilterOptions(Tail(opts))
         IN  IF type.panic \/ rest.panic THEN [rest EXCEPT !.panic = TRUE]
             ELSE CASE type.type = FilterOptionTypeOpQuery ->
                         [rest EXCEPT !.opQueryOptions = <<MustRight(opt).value>> \o @]
                    [] type.type = FilterOptionTypeRangeQuery ->
                         [rest EXCEPT !.rangeQueryOptions = <<opt>> \o @]
                    [] type.type = FilterOptionTypeFuzzyQuery ->
                         [rest EXCEPT !.fuzzyQueryOptions = <<opt>> \o @]
                    [] OTHER -> [rest EXCEPT !.panic = TRUE]

\* newApplyHelper
newApplyHelper(db) == [panic |-> FALSE, err |-> "", db |-> db]

\* fmt.Sprintf("%v", v) of a value of the model
RECURSIVE Digits(_)
Digits(n) ==
    LET d == CASE n % 10 = 0 -> "0" [] n % 10 = 1 -> "1" [] n % 10 = 2 -> "2"
               [] n % 10 = 3 -> "3" [] n % 10 = 4 -> "4" [] n % 10 = 5 -> "5"
               [] n % 10 = 6 -> "6" [] n % 10 = 7 -> "7" [] n % 10 = 8 -> "8"
               [] OTHER -> "9"
    IN  IF n < 10 THEN <<d>> ELSE Digits(n \div 10) \o <<d>>

FormatV(v) ==
    IF v.t \in IntegerTypes THEN (IF v.i < 0 THEN <<"-">> \o Digits(0 - v.i) ELSE Digits(v.i))
    ELSE IF v.t = "Status" THEN <<"{">> \o v.s \o <<"}">>
    ELSE v.s

\* applyHelper.applyOpQueryOptions
applyOpQueryOptions(h, m, opts) ==
    IF Len(opts) = 0 THEN h
    ELSE IF \E i \in 1..Len(opts) : opts[i].op = "" THEN [h EXCEPT !.panic = TRUE]
    ELSE
    LET column(i) == getColumnName(m.joined, opts[i].name)
        query == StringsJoin([i \in 1..Len(opts) |-> column(i) \o " " \o opts[i].op \o " ?"],
                             " AND ")
        sv == [i \in 1..Len(opts) |-> serialize(m, column(i), opts[i].value)]
        conds == [i \in 1..Len(opts) |->
                    [column |-> column(i), op |-> opts[i].op, args |-> <<sv[i].value>>]]
    IN  IF h.err # "" THEN h
        ELSE IF \E i \in 1..Len(opts) : sv[i].err # ""
        THEN [h EXCEPT !.err = sv[CHOOSE i \in 1..Len(opts) :
                                     sv[i].err # "" /\ \A j \in 1..(i - 1) : sv[j].err = ""].err]
        ELSE [h EXCEPT !.db = GormWhere(h.db, query, "AND", conds)]

\* applyHelper.applyRangeQueryOptions
applyRangeQueryOptions(h, m, opts, mem) ==
    IF Len(opts) = 0 THEN h
    ELSE
    LET column(i) == getColumnName(m.joined, opts[i].name)
        word(i) == IF opts[i].exclude THEN "NOT IN" ELSE "IN"
        query == StringsJoin([i \in 1..Len(opts) |-> column(i) \o " " \o word(i) \o " (?)"],
                             " AND ")
        sv == [i \in 1..Len(opts) |-> SerializeAll(m, column(i), GetValues(opts[i], mem))]
        conds == [i \in 1..Len(opts) |->
                    [column |-> column(i), op |-> word(i), args |-> sv[i].values]]
    IN  IF h.err # "" THEN h
        ELSE IF \E i \in 1..Len(opts) : sv[i].err # ""
        THEN [h EXCEPT !.err = sv[CHOOSE i \in 1..Len(opts) :
                                     sv[i].err # "" /\ \A j \in 1..(i - 1) : sv[j].err = ""].err]
        ELSE [h EXCEPT !.db = GormWhere(h.db, query, "AND", conds)]

\* an applyFuzzyQueryOptions that adds its Where to a helper that already
\* holds an error
RECURSIVE applyFuzzyQueryOptionsAlways(_, _, _, _)
applyFuzzyQueryOptionsAlways(h, m, opts, mem) ==
    IF Len(opts) = 0 THEN h
    ELSE
    LET opt == Head(opts)
        column == getColumnName(m.joined, opt.name)
        vs == GetValues(opt, mem)
        queries == [i \in 1..Len(vs) |-> column \o " LIKE ?"]
        conds == [i \in 1..Len(vs) |->
                    [column |-> column, op |-> "LIKE", args |-> <<StrV(FormatV(vs[i]))>>]]
        h1 == [h EXCEPT !.db = GormWhere(h.db, StringsJoin(queries, " OR "), "OR", conds)]
    IN  applyFuzzyQueryOptionsAlways(h1, m, Tail(opts), mem)

\* applyHelper.applyFuzzyQueryOptions: one Where per option, its patterns
\* joined by OR
RECURSIVE applyFuzzyQueryOptions(_, _, _, _)
applyFuzzyQueryOptions(h, m, opts, mem) ==
    IF Len(opts) = 0 THEN h
    ELSE
    LET opt == Head(opts)
        column == getColumnName(m.joined, opt.name)
        vs == GetValues(opt, mem)
        queries == [i \in 1..Len(vs) |-> column \o " LIKE ?"]
        conds == [i \in 1..Len(vs) |->
                    [column |-> column, op |-> "LIKE", args |-> <<StrV(FormatV(vs[i]))>>]]
        h1 == IF h.err # "" THEN h
              ELSE [h EXCEPT !.db = GormWhere(h.db, StringsJoin(queries, " OR "), "OR", conds)]
    IN  applyFuzzyQueryOptions(h1, m, Tail(opts), mem)

\* applyHelper.applyFilterOptions
applyFilterOptions(h, m, opts, mem) ==
    LET filterOpts == parseFilterOptions(opts)
    IN  IF filterOpts.panic THEN [h EXCEPT !.panic = TRUE]
        ELSE LET h1 == applyOpQueryOptions(h, m, filterOpts.opQueryOptions)
             IN  IF h1.panic THEN h1
                 ELSE applyFuzzyQueryOptions(
                          applyRangeQueryOptions(h1, m, filterOpts.rangeQueryOptions, mem),
                          m, filterOpts.fuzzyQueryOptions, mem)

(***************************************************************************)
(* Running a statement on the tables.  Rows come back in storage order     *)
(* unless the statement orders them.                                       *)
(***************************************************************************)
ErrRecordNotFound == "record not found"

ErrMissingWhereClause == "WHERE conditions required"

ErrSyntax == "SQL syntax error"

ErrNoSuchTable == "no such table"

ErrNoSuchColumn == "no such column"

RECURSIVE Flatten(_)
Flatten(seqs) == IF Len(seqs) = 0 THEN <<>> ELSE Head(seqs) \o Flatten(Tail(seqs))

\* the tables a statement reads, the first being the one it is about
StatementTables(stmt) == <<stmt.model>> \o [i \in 1..Len(stmt.joins) |-> stmt.joins[i].table]

\* the columns in scope, each under its qualified name
Scope(tabs) ==
    UNION { { [table |-> tabs[i], col |-> c, key |-> tabs[i] \o "." \o c] :
                c \in TableColumns[tabs[i]] } : i \in 1..Len(tabs) }

\* the columns a name may stand for: a qualified name or a bare one
Resolve(name, scope) == { e \in scope : e.key = name \/ e.col = name }

Resolvable(name, scope) == Cardinality(Resolve(name, scope)) = 1

\* the value of a column name in a row of a statement (a function from
\* qualified names to values)
ValueAt(env, name, scope) == env[(CHOOSE e \in Resolve(name, scope) : TRUE).key]

Qualified(table, row) ==
    [k \in {table \o "." \o c : c \in DOMAIN row} |->
        row[CHOOSE c \in DOMAIN row : table \o "." \o c = k]]

NullRow(table) == [c \in TableColumns[table] |-> NullV]

\* every column name a statement mentions
StatementNames(stmt) ==
    {stmt.selects[i] : i \in 1..Len(stmt.selects)}
    \cup UNION { UNION { {stmt.joins[i].terms[k].left, stmt.joins[i].terms[k].right} :
                            k \in 1..Len(stmt.joins[i].terms) } : i \in 1..Len(stmt.joins) }
    \cup UNION { {stmt.wheres[i].conds[k].column : k \in 1..Len(stmt.wheres[i].conds)} :
                    i \in 1..Len(stmt.wheres) }
    \cup {stmt.orders[i].column : i \in 1..Len(stmt.orders)}

\* the error the backend answers a statement with before it reads a row
StatementError(stmt) ==
    LET tabs == StatementTables(stmt) IN
    IF stmt.err # "" THEN stmt.err
    ELSE IF \E i \in 1..Len(tabs) : tabs[i] \notin DOMAIN TableColumns THEN ErrNoSuchTable
    ELSE IF \E i \in 1..Len(stmt.joins) : stmt.joins[i].on = "" THEN ErrSyntax
    ELSE IF stmt.selectSet /\ Len(stmt.selects) = 0 THEN ErrSyntax
    ELSE IF \E i, j \in 1..Len(tabs) : i # j /\ tabs[i] = tabs[j] THEN ErrSyntax
    ELSE IF \E n \in StatementNames(stmt) : ~Resolvable(n, Scope(tabs)) THEN ErrNoSuchColumn
    ELSE ""

\* the text SQL compares with LIKE
TextOf(v) == IF v.t = "string" THEN v.s ELSE FormatV(v)

\* one condition of a WHERE on a row; IN () and NOT IN () of no value are
\* IN (NULL) and NOT IN (NULL)
CondHolds(env, cond, scope) ==
    LET v == ValueAt(env, cond.column, scope) IN
    CASE cond.op = "IN" -> \E k \in 1..Len(cond.args) : SqlCompare(v, OpEq, cond.args[k])
      [] cond.op = "NOT IN" ->
            /\ Len(cond.args) > 0
            /\ \A k \in 1..Len(cond.args) : SqlCompare(v, OpNe, cond.args[k])
      [] cond.op = "LIKE" -> v.t # "null" /\ SqlLike(TextOf(v), cond.args[1].s)
      [] OTHER -> SqlCompare(v, cond.op, cond.args[1])

WhereHolds(env, w, scope) ==
    IF w.connective = "OR"
    THEN \E k \in 1..Len(w.conds) : CondHolds(env, w.conds[k], scope)
    ELSE \A k \in 1..Len(w.conds) : CondHolds(env, w.conds[k], scope)

\* the rows of FROM ... JOIN ...: for every row so far its matches in the
\* joined table, or under LEFT JOIN the row with NULLs when it has none
RECURSIVE JoinRows(_, _, _, _)
JoinRows(envs, joins, tables, scope) ==
    IF Len(joins) = 0 THEN envs
    ELSE
    LET j == Head(joins)
        right == tables[j.table]
        on(e) == \A k \in 1..Len(j.terms) :
                     SqlCompare(ValueAt(e, j.terms[k].left, scope), j.terms[k].op,
                                ValueAt(e, j.terms[k].right, scope))
        matches(e) == SelectSeq([k \in 1..Len(right) |-> e @@ Qualified(j.table, right[k])], on)
        joinedRows == Flatten([i \in 1..Len(envs) |->
                          IF Len(matches(envs[i])) = 0 /\ j.kind = "LEFT JOIN"
                          THEN <<envs[i] @@ Qualified(j.table, NullRow(j.table))>>
                          ELSE matches(envs[i])])
    IN  JoinRows(joinedRows, Tail(joins), tables, scope)

\* a backend that also selects the rows marked as deleted
SelectedRowsDeleted(stmt, tables) ==
    LET scope == Scope(StatementTables(stmt))
        base == [i \in 1..Len(tables[stmt.model]) |->
                    Qualified(stmt.model, tables[stmt.model][i])]
        keep(e) == \A i \in 1..Len(stmt.wheres) : WhereHolds(e, stmt.wheres[i], scope)
    IN  SelectSeq(JoinRows(base, stmt.joins, tables, scope), keep)

\* the rows a statement selects, soft-deleted rows of its table left out
SelectedRows(stmt, tables) ==
    LET scope == Scope(StatementTables(stmt))
        base == [i \in 1..Len(tables[stmt.model]) |->
                    Qualified(stmt.model, tables[stmt.model][i])]
        alive(e) == stmt.model \in SoftDeleteTables => e[stmt.model \o ".deleted_at"].t = "null"
        keep(e) == alive(e) /\ \A i \in 1..Len(stmt.wheres) : WhereHolds(e, stmt.wheres[i], scope)
    IN  SelectSeq(JoinRows(base, stmt.joins, tables, scope), keep)

\* ORDER BY: NULL sorts first; rows that tie keep their order
KeyLess(x, y) == IF x.t = "null" THEN y.t # "null" ELSE y.t # "null" /\ SqlLess(x, y)

RowBefore(a, b, orders, scope) ==
    \E k \in 1..Len(orders) :
        /\ \A j \in 1..(k - 1) :
               ValueAt(a, orders[j].column, scope) = ValueAt(b, orders[j].column, scope)
        /\ IF orders[k].order = SortOrderDescending
           THEN KeyLess(ValueAt(b, orders[k].column, scope), ValueAt(a, orders[k].column, scope))
           ELSE KeyLess(ValueAt(a, orders[k].column, scope), ValueAt(b, orders[k].column, scope))

RECURSIVE InsertRow(_, _, _, _)
InsertRow(sorted, e, orders, scope) ==
    IF Len(sorted) = 0 THEN <<e>>
    ELSE IF RowBefore(e, sorted[Len(sorted)], orders, scope)
    THEN Append(InsertRow(SubSeq(sorted, 1, Len(sorted) - 1), e, orders, scope),
                sorted[Len(sorted)])
    ELSE Append(sorted, e)

RECURSIVE SortRows(_, _, _)
SortRows(rows, orders, scope) ==
    IF Len(rows) = 0 THEN <<>>
    ELSE InsertRow(SortRows(SubSeq(rows, 1, Len(rows) - 1), orders, scope),
                   rows[Len(rows)], orders, scope)

\* a backend that takes LIMIT rows from the first row on, whatever OFFSET
WindowFromStart(rows, offset, limit) ==
    IF limit > 0 /\ limit < Len(rows) THEN SubSeq(rows, 1, limit) ELSE rows

\* OFFSET and LIMIT; a limit of 0 is no limit
Window(rows, offset, limit) ==
    LET from == IF offset < Len(rows) THEN offset + 1 ELSE Len(rows) + 1
        rest == SubSeq(rows, from, Len(rows))
    IN  IF limit > 0 /\ limit < Len(rest) THEN SubSeq(rest, 1, limit) ELSE rest

\* the rows a SELECT returns, each a function from qualified names to values
QueryRows(stmt, tables) ==
    Window(SortRows(SelectedRows(stmt, tables), stmt.orders, Scope(StatementTables(stmt))),
           stmt.offset, stmt.limit)

\* a driver that hands back every column of the row, as SELECT * does
ProjectRowAll(stmt, env) == env

\* what the driver hands back for a row: the selected columns under their
\* aliases
ProjectRow(stmt, env) ==
    LET scope == Scope(StatementTables(stmt))
    IN  [a \in {stmt.selects[i] : i \in 1..Len(stmt.selects)} |-> ValueAt(env, a, scope)]

\* sql.ConvertAssign into the V of a column, and the Scan of DeletedAt
ConvertAssign(kind, elem, src) ==
    IF src.t = "null"
    THEN (IF kind = "PtrColumn" \/ elem = "gorm.DeletedAt"
          THEN [err |-> "", value |-> NullV]
          ELSE [err |-> "converting NULL is unsupported", value |-> NoValue])
    ELSE IF elem \in IntegerTypes /\ src.t \notin IntegerTypes
    THEN [err |-> "converting driver.Value type", value |-> NoValue]
    ELSE [err |-> "", value |-> [src EXCEPT !.t = elem]]

\* jsonSerializer.scan
JsonScan(src) ==
    IF src.t # "string"
    THEN [err |-> "unsupported value source", value |-> NoValue]
    ELSE JsonUnmarshalStatus(src.s)

\* jsonSerializer.scan into a field of type elem: a RawMessage takes the
\* text as it is
JsonScanInto(elem, src) ==
    IF elem = "json.RawMessage" /\ src.t = "string"
    THEN (IF JsonValid(src.s) THEN [err |-> "", value |-> RawV(src.s)]
          ELSE [err |-> "json: cannot unmarshal", value |-> NoValue])
    ELSE JsonScan(src)

\* the schema gorm parses for a type names the columns as NewModel does for
\* the types of the tests
GormSchema(K) == NewModel(K, NoInitial)

\* gorm filling an entity of type K from a row of its table; the
\* entity's columns carry no name
GormScan(K, env) ==
    LET Cell(sch, fp, column) ==
            IF column \in DOMAIN sch.columnSerializers
            THEN JsonScanInto(sch.columns[fp].t, env[sch.tableName \o "." \o column])
            ELSE ConvertAssign(sch.columns[fp].form, sch.columns[fp].t,
                               env[sch.tableName \o "." \o column])
        Filled(sch, cells) ==
            [err |-> IF \E fp \in DOMAIN cells : cells[fp].err # ""
                     THEN "failed to scan" ELSE "",
             entity |-> [fp \in DOMAIN cells |->
                            ColumnOf(sch.columns[fp].form, sch.columns[fp].t,
                                     NewColumnName(""), cells[fp].value)]]
        Scanned(sch) ==
            Filled(sch, [fp \in DOMAIN sch.columns |->
                            Cell(sch, fp, String(sch.columns[fp].name))])
    IN  Scanned(GormSchema(K))

\* a scan that hands a nil value to Scan instead of leaving the field alone
scanNil(m, values) ==
    LET visits == iterateFields(TypeOf(m.T), FiScan(DOMAIN m.fieldPathToColumn), <<>>)
        known == {FieldPath(visits[i]) : i \in 1..Len(visits)} \cap DOMAIN m.fieldPathToColumn
        columnName(fp) == String(GetColumnName(m, fp))
        present(fp) == columnName(fp) \in DOMAIN values
        cell(fp) ==
            IF columnName(fp) \in DOMAIN m.columnSerializers
            THEN JsonScanInto(m.columns[fp].t, values[columnName(fp)])
            ELSE ConvertAssign(m.columns[fp].form, m.columns[fp].t, values[columnName(fp)])
    IN  [err |-> IF \E fp \in known : present(fp) /\ cell(fp).err # ""
                 THEN "failed to scan value" ELSE "",
         entity |-> [fp \in DOMAIN m.columns |->
                        IF fp \in known /\ present(fp)
                        THEN [m.columns[fp] EXCEPT !.val = cell(fp).value]
                        ELSE m.columns[fp]]]

\* executor.scan: a copy of *e.columns filled from the values of a joined
\* row; a column whose name is no key of the values, or whose value is nil,
\* keeps what the copy held
scan(m, values) ==
    LET visits == iterateFields(TypeOf(m.T), FiScan(DOMAIN m.fieldPathToColumn), <<>>)
        known == {FieldPath(visits[i]) : i \in 1..Len(visits)} \cap DOMAIN m.fieldPathToColumn
        columnName(fp) == String(GetColumnName(m, fp))
        present(fp) == columnName(fp) \in DOMAIN values /\ values[columnName(fp)].t # "null"
        cell(fp) ==
            IF columnName(fp) \in DOMAIN m.columnSerializers
            THEN JsonScanInto(m.columns[fp].t, values[columnName(fp)])
            ELSE ConvertAssign(m.columns[fp].form, m.columns[fp].t, values[columnName(fp)])
    IN  [err |-> IF \E fp \in known : present(fp) /\ cell(fp).err # ""
                 THEN "failed to scan value" ELSE "",
         entity |-> [fp \in DOMAIN m.columns |->
                        IF fp \in known /\ present(fp)
                        THEN [m.columns[fp] EXCEPT !.val = cell(fp).value]
                        ELSE m.columns[fp]]]

\* UPDATE and DELETE read their own table only
WriteStatement(stmt) == [stmt EXCEPT !.joins = <<>>, !.selects = <<>>, !.selectSet = FALSE]

\* the error an UPDATE or a DELETE ends with, "" when it runs; gorm refuses
\* one without conditions before the backend sees it
WriteError(stmt, columns) ==
    IF stmt.err # "" THEN stmt.err
    ELSE IF Len(stmt.wheres) = 0 THEN ErrMissingWhereClause
    ELSE IF StatementError(WriteStatement(stmt)) # "" THEN StatementError(WriteStatement(stmt))
    ELSE IF \E c \in columns : c \notin TableColumns[stmt.model] THEN ErrNoSuchColumn
    ELSE ""

\* the positions of the rows of its table a write statement selects
WrittenRows(stmt, tables) ==
    LET w == WriteStatement(stmt)
        scope == Scope(StatementTables(w))
        env(i) == Qualified(w.model, tables[w.model][i])
    IN  { i \in 1..Len(tables[w.model]) :
            /\ w.model \in SoftDeleteTables => tables[w.model][i]["deleted_at"].t = "null"
            /\ \A k \in 1..Len(w.wheres) : WhereHolds(env(i), w.wheres[k], scope) }

\* db.Updates(updateMap)
BackendUpdates(stmt, updateMap, tables) ==
    IF WriteError(stmt, DOMAIN updateMap) # ""
    THEN [err |-> WriteError(stmt, DOMAIN updateMap), rowsAffected |-> 0, tables |-> tables]
    ELSE LET hit == WrittenRows(stmt, tables)
         IN  [err |-> "", rowsAffected |-> Cardinality(hit),
              tables |-> [tables EXCEPT ![stmt.model] =
                  [i \in 1..Len(@) |->
                      IF i \in hit
                      THEN [c \in DOMAIN @[i] |->
                               IF c \in DOMAIN updateMap THEN updateMap[c] ELSE @[i][c]]
                      ELSE @[i]]]]

\* the time the backend stamps rows with
Now == TimeV(1)

\* db.Delete(new(T)): rows with a DeletedAt column are stamped, others removed
BackendDelete(stmt, tables) ==
    IF WriteError(stmt, {}) # ""
    THEN [err |-> WriteError(stmt, {}), tables |-> tables]
    ELSE LET hit == WrittenRows(stmt, tables)
             old == tables[stmt.model]
             kept == {i \in 1..Len(old) : i \notin hit}
             pos(n) == CHOOSE i \in kept : Cardinality({j \in kept : j < i}) = n - 1
         IN  [err |-> "",
              tables |-> [tables EXCEPT ![stmt.model] =
                  IF stmt.model \in SoftDeleteTables
                  THEN [i \in 1..Len(old) |->
                           IF i \in hit THEN [old[i] EXCEPT !["deleted_at"] = Now] ELSE old[i]]
                  ELSE [n \in 1..Cardinality(kept) |-> old[pos(n)]]]]

\* the value a column of an entity is stored as
DriverValue(col, serializer) ==
    IF col.val.t = "invalid"
    THEN (CASE col.form = "PtrColumn" -> NullV
            [] col.t \in IntegerTypes -> IntV(col.t, 0)
            [] col.t = "gorm.DeletedAt" -> NullV
            [] col.t = "time.Time" -> Now
            [] col.t = "Status" -> JsonMarshal(StatusV(<<>>))
            [] OTHER -> StrV(<<>>))
    ELSE IF serializer THEN JsonMarshal(col.val)
    ELSE col.val

\* db.Create(entity): a new row; a zero primary key is given the next one
BackendCreate(stmt, K, entity, tables) ==
    LET Keyed(row0, next) ==
            IF row0["id"].i = 0 THEN [row0 EXCEPT !["id"].i = next] ELSE row0
        Stored(table, old, row) ==
            IF \E i \in 1..Len(old) : old[i]["id"].i = row["id"].i
            THEN [err |-> "UNIQUE constraint failed", tables |-> tables]
            ELSE [err |-> "", tables |-> [tables EXCEPT ![table] = Append(old, row)]]
        NextId(ids) == 1 + CHOOSE n \in ids : \A k \in ids : k <= n
        Insert(sch, table, old) ==
            Stored(table, old,
                   Keyed([c \in TableColumns[table] |->
                             DriverValue(entity[CHOOSE fp \in DOMAIN sch.columns :
                                                    String(sch.columns[fp].name) = c],
                                         c \in DOMAIN sch.columnSerializers)],
                         NextId({old[i]["id"].i : i \in 1..Len(old)} \cup {0})))
        Into(sch, table) ==
            IF stmt.err # "" THEN [err |-> stmt.err, tables |-> tables]
            ELSE IF table \notin DOMAIN TableColumns
            THEN [err |-> ErrNoSuchTable, tables |-> tables]
            ELSE Insert(sch, table, tables[table])
    IN  Into(GormSchema(K), NamingTableName(TypeName(TypeOf(K))))

(***************************************************************************)
(* Create and the executor's Get, List, Update and Delete.  Each gives the *)
(* outcome the caller sees (a return with or without error, or a panic),   *)
(* the number of DB handles obtained, the statements that reached the      *)
(* backend and the tables afterwards.                                      *)
(***************************************************************************)
Outcome(outcome, err, count, entities, dbCalls, statements, tables) ==
    [outcome |-> outcome, err |-> err, count |-> count, entities |-> entities,
     dbCalls |-> dbCalls, statements |-> statements, tables |-> tables]

PanicOutcome(dbCalls, tables) == Outcome("panic", "", 0, <<>>, dbCalls, <<>>, tables)

ErrorOutcome(err, dbCalls, statements, tables) ==
    Outcome("error", err, 0, <<>>, dbCalls, statements, tables)

Sent(verb, stmt) == [verb |-> verb, stmt |-> stmt]

\* the statements of a write that reached the backend: gorm keeps one
\* without conditions to itself
SentWrite(verb, stmt) ==
    IF stmt.err # "" \/ Len(stmt.wheres) = 0 THEN <<>> ELSE <<Sent(verb, stmt)>>

\* the loop of Update over its options: the update map, or the first error
RECURSIVE UpdateMap(_, _)
UpdateMap(m, opts) ==
    IF Len(opts) = 0 THEN [err |-> "", map |-> <<>>]
    ELSE LET front == UpdateMap(m, SubSeq(opts, 1, Len(opts) - 1))
             opt == opts[Len(opts)]
             column == getColumnName(m.joined, opt.name)
             sv == serialize(m, column, opt.value)
         IN  IF front.err # "" THEN front
             ELSE IF sv.err # "" THEN [err |-> sv.err, map |-> <<>>]
             ELSE [err |-> "",
                   map |-> [c \in DOMAIN front.map \cup {column} |->
                               IF c = column THEN sv.value ELSE front.map[c]]]

\* Update after the test for an empty list of options: the update map, the
\* filters, and db.Model(new(T)).Updates(updateMap)
ExecutorUpdateBody(m, left, right, queries, opts, tables, mem) ==
    LET Answer(stmt, updated) ==
            Outcome(IF updated.err # "" THEN "error" ELSE "ok", updated.err,
                    updated.rowsAffected, <<>>, 1, SentWrite("UPDATE", stmt), updated.tables)
        Run(stmt, map) == Answer(stmt, BackendUpdates(stmt, map, tables))
        Filtered(d, h, map) ==
            IF d.panic \/ h.panic THEN PanicOutcome(1, tables)
            ELSE IF h.err # "" THEN ErrorOutcome(h.err, 1, <<>>, tables)
            ELSE Run(GormModel(h.db, m.T), map)
        Opened(d, map) ==
            Filtered(d, applyFilterOptions(newApplyHelper(d.db), m, queries, mem), map)
        Mapped(um) ==
            IF um.err # "" THEN ErrorOutcome(um.err, 0, <<>>, tables)
            ELSE Opened(ModelDB(m, left, right), um.map)
    IN  Mapped(UpdateMap(m, opts))

\* executor.Update without the test for an empty list of options
ExecutorUpdateUnchecked(m, left, right, queries, opts, tables, mem) ==
    ExecutorUpdateBody(m, left, right, queries, opts, tables, mem)

\* executor.Update
ExecutorUpdate(m, left, right, queries, opts, tables, mem) ==
    IF Len(opts) = 0 THEN ErrorOutcome("empty options", 0, <<>>, tables)
    ELSE ExecutorUpdateBody(m, left, right, queries, opts, tables, mem)

\* executor.Delete
ExecutorDelete(m, left, right, queries, tables, mem) ==
    LET Answer(stmt, deleted) ==
            Outcome(IF deleted.err # "" THEN "error" ELSE "ok", deleted.err, 0, <<>>, 1,
                    SentWrite("DELETE", stmt), deleted.tables)
        Run(stmt) == Answer(stmt, BackendDelete(stmt, tables))
        Filtered(d, h) ==
            IF d.panic \/ h.panic THEN PanicOutcome(1, tables)
            ELSE IF h.err # "" THEN ErrorOutcome(h.err, 1, <<>>, tables)
            ELSE Run(GormModel(h.db, m.T))
        Opened(d) == Filtered(d, applyFilterOptions(newApplyHelper(d.db), m, queries, mem))
    IN  Opened(ModelDB(m, left, right))

\* the first argument of newApplyHelper in Get and List
QueryDB(m, d) == IF m.joined THEN d.db ELSE GormModel(d.db, m.T)

\* the entity of one row: scan for a joined Model, gorm's own scan otherwise
ScanRow(m, stmt, row) ==
    IF m.joined THEN scan(m, ProjectRow(stmt, row)) ELSE GormScan(m.T, row)

\* Take reads one row in storage order, First the one with the smallest
\* primary key
FirstOrTake(m, db) ==
    IF m.joined THEN GormLimit(db, 1)
    ELSE GormLimit(GormOrder(db, db.model \o ".id", db.model \o ".id", SortOrderAscending), 1)

\* executor.Get
ExecutorGet(m, left, right, queries, tables, mem) ==
    LET Answer(sent, scanned) ==
            IF scanned.err # ""
            THEN Outcome("error", scanned.err, 0,
                         IF m.joined THEN <<>> ELSE <<scanned.entity>>, 1, sent, tables)
            ELSE Outcome("ok", "", 0, <<scanned.entity>>, 1, sent, tables)
        Read(stmt, sent, err, rows) ==
            IF err # "" THEN ErrorOutcome(err, 1, sent, tables)
            ELSE IF Len(rows) = 0 THEN ErrorOutcome(ErrRecordNotFound, 1, sent, tables)
            ELSE Answer(sent, ScanRow(m, stmt, rows[1]))
        Run(stmt) ==
            Read(stmt, <<Sent("SELECT", stmt)>>, StatementError(stmt), QueryRows(stmt, tables))
        Filtered(d, h) ==
            IF d.panic \/ h.panic THEN PanicOutcome(1, tables)
            ELSE IF h.err # "" THEN ErrorOutcome(h.err, 1, <<>>, tables)
            ELSE Run(FirstOrTake(m, h.db))
        Opened(d) ==
            Filtered(d, applyFilterOptions(newApplyHelper(QueryDB(m, d)), m, queries, mem))
    IN  Opened(ModelDB(m, left, right))

\* the loop of List over the sort options
RECURSIVE ApplySort(_, _, _)
ApplySort(db, joined, sortOptions) ==
    IF Len(sortOptions) = 0 THEN db
    ELSE LET Ordered(opt, column) ==
                 GormOrder(db, column \o " " \o opt.order, column, opt.order)
             Sorted(opt) == Ordered(opt, getColumnName(joined, opt.name))
         IN  ApplySort(Sorted(Head(sortOptions)), joined, Tail(sortOptions))

\* the statement of List after Limit, Offset and the sort options
Paged(m, db, opts) ==
    LET Skipped(limited) ==
            IF opts.Offset # 0 THEN GormOffset(limited, opts.Offset) ELSE limited
        Limited == IF opts.Limit # 0 THEN GormLimit(db, opts.Limit) ELSE db
    IN  ApplySort(Skipped(Limited), m.joined, opts.SortOptions)

\* executor.List
ExecutorList(m, left, right, queries, opts, tables, mem) ==
    LET Answer(total, sent, scanned) ==
            IF \E i \in 1..Len(scanned) : scanned[i].err # ""
            THEN Outcome("error", "failed to scan", total, <<>>, 1, sent, tables)
            ELSE Outcome("ok", "", total, [i \in 1..Len(scanned) |-> scanned[i].entity], 1,
                         sent, tables)
        Found(total, sent, stmt, rows) ==
            Answer(total, sent, [i \in 1..Len(rows) |-> ScanRow(m, stmt, rows[i])])
        Read(total, sent, stmt, findErr) ==
            IF findErr # "" THEN Outcome("error", findErr, total, <<>>, 1, sent, tables)
            ELSE Found(total, sent, stmt, QueryRows(stmt, tables))
        Counted(db, stmt, total) ==
            Read(total, <<Sent("COUNT", db), Sent("SELECT", stmt)>>, stmt, StatementError(stmt))
        Run(db, countErr) ==
            IF countErr # "" THEN ErrorOutcome(countErr, 1, <<Sent("COUNT", db)>>, tables)
            ELSE Counted(db, Paged(m, db, opts), Len(SelectedRows(db, tables)))
        Filtered(d, h) ==
            IF d.panic \/ h.panic THEN PanicOutcome(1, tables)
            ELSE IF h.err # "" THEN ErrorOutcome(h.err, 1, <<>>, tables)
            ELSE Run(h.db, StatementError(h.db))
        Opened(d) ==
            Filtered(d, applyFilterOptions(newApplyHelper(QueryDB(m, d)), m, queries, mem))
    IN  Opened(ModelDB(m, left, right))

\* model.Create
ModelCreate(m, left, right, entity, tables) ==
    LET Answer(d, created) ==
            Outcome(IF created.err # "" THEN "error" ELSE "ok", created.err, 0, <<>>, 1,
                    <<Sent("INSERT", d.db)>>, created.tables)
        Opened(d) ==
            IF d.panic THEN PanicOutcome(1, tables)
            ELSE Answer(d, BackendCreate(d.db, m.T, entity, tables))
    IN  Opened(ModelDB(m, left, right))

(***************************************************************************)
(* What each specification leaves alone                                    *)
(***************************************************************************)
NoCall == [called |-> FALSE, recv |-> NewColumn(NoValue), op |-> "", operand |-> NilOperand,
           result |-> Panicked]

\* no slice returned by GetValues yet
NoGot == [valid |-> FALSE, slice |-> [arr |-> 0, len |-> 0]]

MapperIdle == mL = NoModel /\ mR = NoModel /\ mJ = NoModel

OptionIdle == opCall = NoCall

ValuesIdle == heap = <<>> /\ vopt = NoOption /\ got = NoGot

\* no operation run yet, nothing held by the caller
NoResult ==
    [op |-> "", model |-> "", queries |-> <<>>, updates |-> <<>>, outcome |-> "", err |-> "",
     count |-> 0, entities |-> <<>>, dbCalls |-> 0, statements |-> <<>>]

NoHeld == [kind |-> "none", columns |-> <<>>, names |-> {}]

\* no goroutine started, no transaction open
RunIdle == gor = <<>> /\ txs = <<>>

ExecIdle == backend = <<>> /\ res = NoResult /\ held = NoHeld /\ RunIdle

vars == <<mL, mR, mJ, opCall, heap, vopt, got, backend, res, held, gor, txs>>

(***************************************************************************)
(* SpecMapper: the schema mapper and the join composer applied to record   *)
(* types drawn from the generated and the declared types.                  *)
(***************************************************************************)
MapperTypes == GeneratedTypes \cup AppTypes

\* the first column NewModel named
FirstColumn(m) == ModelColumn(m, SchemaPaths(m)[1])

\* the join options tried: none at all, or the whole left side selected and
\* the two first columns compared
MapperJoinOptions(left, right) ==
    { NewJoinOptions(<<>>, <<>>) } \cup
    { NewJoinOptions([i \in 1..Len(SchemaPaths(left)) |-> GetterRef("L", SchemaPaths(left)[i])],
                     <<ColumnCompare(FirstColumn(left), op, FirstColumn(right)).value>>) :
        op \in {OpEq, OpGt} }

MapperInit == MapperIdle /\ OptionIdle /\ ValuesIdle /\ ExecIdle

MapperBuildLeft ==
    \E T \in MapperTypes :
        /\ ~mL.built
        /\ mL' = NewModel(T, NoInitial)
        /\ mJ' = NoModel
        /\ UNCHANGED <<mR, optionVars, valuesVars, execVars, runVars>>

MapperBuildRight ==
    \E T \in AppTypes :
        /\ ~mR.built
        /\ mR' = NewModel(T, NoInitial)
        /\ mJ' = NoModel
        /\ UNCHANGED <<mL, optionVars, valuesVars, execVars, runVars>>

MapperJoin ==
    /\ mL.built /\ mR.built /\ ~mJ.built
    /\ \E opts \in MapperJoinOptions(mL, mR) : mJ' = Join(mL, mR, opts)
    /\ UNCHANGED <<mL, mR, optionVars, valuesVars, execVars, runVars>>

MapperLeftJoin ==
    /\ mL.built /\ mR.built /\ ~mJ.built
    /\ \E opts \in MapperJoinOptions(mL, mR) : mJ' = LeftJoin(mL, mR, opts)
    /\ UNCHANGED <<mL, mR, optionVars, valuesVars, execVars, runVars>>

MapperNext == MapperBuildLeft \/ MapperBuildRight \/ MapperJoin \/ MapperLeftJoin

SpecMapper == MapperInit /\ [][MapperNext]_vars

\* the paths of the columns of a component type, as the walker visits them
ComponentPaths(K) ==
    LET visits == iterateFields(TypeOf(K), FiNewModel, <<>>)
    IN  { visits[i] : i \in { j \in 1..Len(visits) : IsColumnNameSetter(visits[j][Len(visits[j])].Type) } }

\* C1: in the joined schema every column reached through Left is qualified
\* with the table of L, every column reached through Right with the table of
\* R: its name is the qualified (Full) name the component's own Model gives
\* the same field.
C1_SideQualified ==
    mJ.built =>
        /\ \A p \in ComponentPaths(mL.T) :
               String(GetColumnName(mJ, "Left." \o FieldPath(p))) = Full(GetColumnName(mL, FieldPath(p)))
        /\ \A p \in ComponentPaths(mR.T) :
               String(GetColumnName(mJ, "Right." \o FieldPath(p))) = Full(GetColumnName(mR, FieldPath(p)))

\* C2: no two distinct field paths of a joined schema resolve to the same
\* qualified column name.
C2_JoinedNamesUnambiguous ==
    mJ.built =>
        \A fp1, fp2 \in DOMAIN mJ.fieldPathToColumn :
            fp1 # fp2 => Full(GetColumnName(mJ, fp1)) # Full(GetColumnName(mJ, fp2))

\* the prefixes the ancestors of a leaf declare, outer to inner
RECURSIVE DeclaredPrefixes(_)
DeclaredPrefixes(ancestors) ==
    IF Len(ancestors) = 0 THEN ""
    ELSE Head(ancestors).Tag.EMBEDDEDPREFIX \o DeclaredPrefixes(Tail(ancestors))

\* every ancestor is an embedded struct that declares a prefix
EveryLevelPrefixed(path) ==
    \A i \in 1..(Len(path) - 1) :
        /\ path[i].Tag.EMBEDDEDPREFIX # ""
        /\ (path[i].Anonymous \/ path[i].Tag.EMBEDDED # "")

BareName(sf) == IF sf.Tag.COLUMN # "" THEN sf.Tag.COLUMN ELSE NamingColumnName(sf.Name)

\* C4: below N nested embedded structs that each declare a prefix, a leaf
\* column is named by the prefixes of its ancestors, outer to inner, followed
\* by its own bare name.
C4_NestedPrefixes ==
    (mL.built /\ ~mL.joined) =>
        \A p \in ComponentPaths(mL.T) :
            EveryLevelPrefixed(p) =>
                String(GetColumnName(mL, FieldPath(p))) =
                    DeclaredPrefixes(SubSeq(p, 1, Len(p) - 1)) \o BareName(p[Len(p)])

\* a leaf two levels deep whose ancestors declare different prefixes
C4_Witness ==
    /\ mL.built
    /\ \E p \in ComponentPaths(mL.T) :
           /\ Len(p) = 3
           /\ EveryLevelPrefixed(p)
           /\ p[1].Tag.EMBEDDEDPREFIX # p[2].Tag.EMBEDDEDPREFIX
           /\ String(GetColumnName(mL, FieldPath(p))) = "a_b_leaf"

(***************************************************************************)
(* SpecOption: the operator methods EQ .. LTE of Column[T] and             *)
(* PtrColumn[T], called with receivers and operands drawn from the sets    *)
(* below.                                                                  *)
(***************************************************************************)
\* the columns the methods are called on, as Columns() hands them out
OptionReceivers ==
    { ColumnOf("Column", "int", ColumnNameOf("users", "age"), NoValue),
      ColumnOf("Column", "uint8", ColumnNameOf("users", "level"), NoValue),
      ColumnOf("PtrColumn", "string", ColumnNameOf("users", "address"), NoValue),
      ColumnOf("Column", "Status", ColumnNameOf("users", "status"), NoValue) }

OptionOperands ==
    { PlainOperand(v) : v \in { IntV("int", 0 - 1), IntV("int", 65), IntV("int", 300),
                                IntV("uint8", 7), StrV(<<"x">>), StatusV(<<"T">>) } }
    \cup { NilOperand }
    \cup OptionReceivers
    \cup { ColumnOf("Column", "int", ColumnNameOf("relations", "age"), IntV("int", 20)),
           ColumnOf("PtrColumn", "uint8", ColumnNameOf("relations", "level"), NoValue),
           ColumnOf("Column", "string", ColumnNameOf("relations", "user_name"), NoValue) }

OptionInit == OptionIdle /\ MapperIdle /\ ValuesIdle /\ ExecIdle

\* c.EQ(v), c.NE(v), c.GT(v), c.LT(v), c.GTE(v), c.LTE(v)
OptionCompare ==
    \E c \in OptionReceivers, op \in QueryOps, v \in OptionOperands :
        /\ opCall' = [called |-> TRUE, recv |-> c, op |-> op, operand |-> v,
                      result |-> ColumnCompare(c, op, v)]
        /\ UNCHANGED <<mapperVars, valuesVars, execVars, runVars>>

OptionNext == OptionCompare

SpecOption == OptionInit /\ [][OptionNext]_vars

\* the option a call returned
OptionReturned == opCall.called /\ ~opCall.result.panic

\* C3: a column operand of a convertible type gives the ColumnCompare variant
\* with the receiver's name left and the operand's name right; a plain
\* convertible value gives the LiteralCompare variant with the value
\* converted to T; an OpOption is exactly one of the two variants.
C3_OpOptionVariant ==
    opCall.called =>
        LET c == opCall.recv
            v == opCall.operand
            e == opCall.result.value.either
        IN  /\ (HasReflectValue(v) /\ CanConvert(v.t, c.t)) =>
                   /\ OptionReturned
                   /\ e.isLeft /\ ~e.left.nil /\ e.right.nil
                   /\ e.left.left = c.name /\ e.left.right = v.name /\ e.left.op = opCall.op
            /\ (v.form = "value" /\ CanConvert(v.t, c.t)) =>
                   /\ OptionReturned
                   /\ ~e.isLeft /\ ~e.right.nil /\ e.left.nil
                   /\ e.right.name = c.name /\ e.right.op = opCall.op
                   /\ e.right.value.t = c.t
                   /\ (c.t = "uint8" => e.right.value.i \in 0..255)
                   /\ (c.t = v.t => e.right.value = v.val)
            /\ OptionReturned => (e.left.nil # e.right.nil) /\ (e.isLeft = e.right.nil)

\* an int that does not fit the receiver's uint8 was converted
C3_Witness ==
    /\ OptionReturned
    /\ opCall.recv.t = "uint8" /\ opCall.operand.form = "value" /\ opCall.operand.val.i = 300
    /\ opCall.result.value.either.right.value = IntV("uint8", 44)

\* C8: an operand whose type does not convert to T makes the constructing
\* call fail at once and no OpOption exists; every OpOption that exists was
\* built from a convertible operand, so nothing is left to fail later.
C8_NonConvertibleFailsAtConstruction ==
    opCall.called =>
        /\ ~CanConvert(opCall.operand.t, opCall.recv.t) =>
               opCall.result.panic /\ opCall.result.value = NoOption
        /\ ~opCall.result.panic =>
               /\ CanConvert(opCall.operand.t, opCall.recv.t)
               /\ ~opCall.result.value.either.isLeft =>
                      opCall.result.value.either.right.value.t = opCall.recv.t

\* a string compared with an int column, and a Status column with an int column
C8_Witness ==
    /\ opCall.called /\ opCall.result.panic
    /\ opCall.recv.t = "int"
    /\ opCall.operand.t \in {"string", "Status"}

(***************************************************************************)
(* SpecValues: In, NotIn and FuzzyIn called with a slice of the caller,    *)
(* GetValues, and the caller's writes to the slices it holds.  heap[1] is  *)
(* the backing array of the caller's slice, heap[2] that of the slice      *)
(* GetValues returned last.                                                *)
(***************************************************************************)
SliceElems == {IntV("int", 7), IntV("int", 8), IntV("int", 9)}

ValuesReceiver == ColumnOf("Column", "int", ColumnNameOf("users", "age"), NoValue)

\* the slice the caller built
CallerSlice == SliceOf(1, Len(heap[1]))

ValuesBuilt == vopt # NoOption

ValuesInit ==
    /\ \E n \in 0..MaxSliceLen : \E arr \in [1..n -> SliceElems] : heap = <<arr>>
    /\ vopt = NoOption
    /\ got = NoGot
    /\ MapperIdle /\ OptionIdle /\ ExecIdle

\* opt := c.In(values)
ValuesIn ==
    /\ ~ValuesBuilt
    /\ vopt' = ColumnIn(ValuesReceiver, CallerSlice)
    /\ UNCHANGED <<heap, got, mapperVars, optionVars, execVars, runVars>>

\* opt := c.NotIn(values)
ValuesNotIn ==
    /\ ~ValuesBuilt
    /\ vopt' = ColumnNotIn(ValuesReceiver, CallerSlice)
    /\ UNCHANGED <<heap, got, mapperVars, optionVars, execVars, runVars>>

\* opt := c.FuzzyIn(values)
ValuesFuzzyIn ==
    /\ ~ValuesBuilt
    /\ vopt' = ColumnFuzzyIn(ValuesReceiver, CallerSlice)
    /\ UNCHANGED <<heap, got, mapperVars, optionVars, execVars, runVars>>

\* values[i] = v, by the caller, on the slice it passed
ValuesCallerWrite ==
    /\ ValuesBuilt
    /\ \E i \in 1..CallerSlice.len, v \in SliceElems :
           /\ heap[1][i] # v
           /\ heap' = [heap EXCEPT ![1][i] = v]
    /\ UNCHANGED <<vopt, got, mapperVars, optionVars, execVars, runVars>>

\* r := opt.GetValues(): a new slice with the elements of opt.values
ValuesGetValues ==
    /\ ValuesBuilt
    /\ heap' = <<heap[1], GetValues(vopt, heap)>>
    /\ got' = [valid |-> TRUE, slice |-> SliceOf(2, Len(GetValues(vopt, heap)))]
    /\ UNCHANGED <<vopt, mapperVars, optionVars, execVars, runVars>>

\* r[i] = v, by the caller, on the slice GetValues returned
ValuesWriteReturned ==
    /\ got.valid
    /\ \E i \in 1..got.slice.len, v \in SliceElems :
           /\ heap[2][i] # v
           /\ heap' = [heap EXCEPT ![2][i] = v]
    /\ UNCHANGED <<vopt, got, mapperVars, optionVars, execVars, runVars>>

ValuesNext ==
    \/ ValuesIn
    \/ ValuesNotIn
    \/ ValuesFuzzyIn
    \/ ValuesCallerWrite
    \/ ValuesGetValues
    \/ ValuesWriteReturned

SpecValues == ValuesInit /\ [][ValuesNext]_vars

\* C10: once In, NotIn or FuzzyIn has built an option, whatever the caller
\* writes to the slice it passed or to a slice GetValues returned, the
\* option stays the same value and its GetValues returns the same elements.
C10_OptionImmutable ==
    [][ValuesBuilt => (vopt' = vopt /\ GetValues(vopt', heap') = GetValues(vopt, heap))]_vars

(***************************************************************************)
(* Spec: a program that builds the Models of User and Relation, joins      *)
(* them, and runs Create, Get, List, Update and Delete through them, while *)
(* it keeps and writes to what Columns() and ColumnNames() gave it.        *)
(***************************************************************************)
\* the slices the program passes to In and FuzzyIn
ExecHeap == << <<IntV("int", 46), IntV("int", 30)>>, <<StrV(<<"l">>)>> >>

ModelOf(id) == CASE id = "L" -> mL [] id = "R" -> mR [] OTHER -> mJ

\* the filter lists the program queries a Model with, built from the
\* columns Columns() hands out at that moment
Queries(id) ==
    CASE id = "L" ->
           { <<>>,
             <<ColumnCompare(ModelColumn(mL, "Age"), OpGt, PlainOperand(IntV("int", 40))).value>>,
             <<ColumnCompare(ModelColumn(mL, "Name"), OpEq, ModelColumn(mR, "UserName")).value>>,
             <<ColumnIn(ModelColumn(mL, "Age"), SliceOf(1, 2)),
               ColumnFuzzyIn(ModelColumn(mL, "Name"), SliceOf(2, 1))>>,
             <<ColumnCompare(ModelColumn(mL, "Status"), OpEq,
                             PlainOperand(StatusV(<<"T">>))).value>> }
      [] id = "R" ->
           { <<>>,
             <<ColumnCompare(ModelColumn(mR, "Age"), OpGte, PlainOperand(IntV("int", 30))).value>> }
      [] OTHER ->
           { <<>>,
             <<ColumnCompare(ModelColumn(mJ, "Left.Age"), OpGt,
                             PlainOperand(IntV("int", 40))).value>>,
             <<ColumnCompare(ModelColumn(mJ, "Left.Name"), OpEq,
                             ModelColumn(mJ, "Right.UserName")).value>> }

\* the update lists: none, or a new age
Updates(id) ==
    LET age == IF id = "J" THEN "Left.Age" ELSE "Age"
    IN  { <<>>, <<newUpdateOption(ModelColumn(ModelOf(id), age).name, IntV("int", 50))>> }

\* the ListOptions: everything, or the row with the largest id
Lists(id) ==
    LET pk == IF id = "J" THEN "Left.ID" ELSE "ID"
    IN  { [Offset |-> 0, Limit |-> 0, SortOptions |-> <<>>],
          [Offset |-> 0, Limit |-> 1,
           SortOptions |-> <<ColumnNameSort(ModelColumn(ModelOf(id), pk).name,
                                            SortOrderDescending)>>] }

\* the join options: none at all; the users' and relations' columns
\* selected and the names compared; the same with a literal as condition,
\* alone and after a comparison of two columns
ExecJoinOptions ==
    LET selected == << GetterRef("L", "ID"), GetterValue(ModelColumn(mL, "Name").name),
                       GetterValue(ModelColumn(mL, "Age").name),
                       GetterValue(ModelColumn(mR, "UserName").name) >>
    IN  { NewJoinOptions(<<>>, <<>>),
          NewJoinOptions(selected,
              <<ColumnCompare(ModelColumn(mL, "Name"), OpEq, ModelColumn(mR, "UserName")).value>>),
          NewJoinOptions(selected,
              <<ColumnCompare(ModelColumn(mL, "Age"), OpGt, ModelColumn(mR, "Age")).value,
                ColumnCompare(ModelColumn(mL, "ID"), OpNe, ModelColumn(mR, "ID")).value>>),
          NewJoinOptions(selected,
              <<ColumnCompare(ModelColumn(mL, "Age"), OpEq, PlainOperand(IntV("int", 30))).value>>),
          NewJoinOptions(selected,
              <<ColumnCompare(ModelColumn(mL, "Name"), OpEq, ModelColumn(mR, "UserName")).value,
                ColumnCompare(ModelColumn(mL, "Age"), OpEq, PlainOperand(IntV("int", 30))).value>>) }

\* the entity the program creates
NewRelation(id, name, userName, age) ==
    [fp \in {"ID", "Name", "UserName", "Age"} |->
        CASE fp = "ID" -> NewColumn(IntV("uint64", id))
          [] fp = "Name" -> NewColumn(StrV(name))
          [] fp = "UserName" -> NewColumn(StrV(userName))
          [] OTHER -> NewColumn(IntV("int", age))]

Init ==
    /\ mL = NewModel(KUser, NoInitial)
    /\ mR = NewModel(KRelation, NoInitial)
    /\ mJ = NoModel
    /\ backend = InitialTables
    /\ res = NoResult
    /\ held = NoHeld
    /\ heap = ExecHeap
    /\ vopt = NoOption /\ got = NoGot /\ OptionIdle
    /\ RunIdle

\* what an operation leaves in res
Result(op, id, queries, updates, out) ==
    [op |-> op, model |-> id, queries |-> queries, updates |-> updates,
     outcome |-> out.outcome, err |-> out.err, count |-> out.count,
     entities |-> out.entities, dbCalls |-> out.dbCalls, statements |-> out.statements]

ExecModels == {"L", "R", "J"}

BuiltModels == {id \in ExecModels : ModelOf(id).built}

\* m.Query(queries...).Get(ctx) on one of the Models ids
GetOn(ids) ==
    \E id \in ids \cap BuiltModels : \E queries \in Queries(id) :
        \E out \in {ExecutorGet(ModelOf(id), mL, mR, queries, backend, heap)} :
        /\ res' = Result("Get", id, queries, <<>>, out)
        /\ backend' = out.tables
        /\ UNCHANGED <<mapperVars, optionVars, valuesVars, held, runVars>>

\* m.Query(queries...).List(ctx, opts)
ListOn(ids) ==
    \E id \in ids \cap BuiltModels : \E queries \in Queries(id), opts \in Lists(id) :
        \E out \in {ExecutorList(ModelOf(id), mL, mR, queries, opts, backend, heap)} :
        /\ res' = Result("List", id, queries, <<>>, out)
        /\ backend' = out.tables
        /\ UNCHANGED <<mapperVars, optionVars, valuesVars, held, runVars>>

\* m.Query(queries...).Update(ctx, opts...)
UpdateOn(ids) ==
    \E id \in ids \cap BuiltModels : \E queries \in Queries(id), opts \in Updates(id) :
        \E out \in {ExecutorUpdate(ModelOf(id), mL, mR, queries, opts, backend, heap)} :
        /\ res' = Result("Update", id, queries, opts, out)
        /\ backend' = out.tables
        /\ UNCHANGED <<mapperVars, optionVars, valuesVars, held, runVars>>

\* m.Query(queries...).Delete(ctx)
DeleteOn(ids) ==
    \E id \in ids \cap BuiltModels : \E queries \in Queries(id) :
        \E out \in {ExecutorDelete(ModelOf(id), mL, mR, queries, backend, heap)} :
        /\ res' = Result("Delete", id, queries, <<>>, out)
        /\ backend' = out.tables
        /\ UNCHANGED <<mapperVars, optionVars, valuesVars, held, runVars>>

Get == GetOn({"L", "R"})

List == ListOn({"L", "R"})

Update == UpdateOn({"L", "R"})

Delete == DeleteOn({"L", "R"})

\* relations.Create(ctx, &entity)
Create ==
    \E out \in {ModelCreate(mR, mL, mR, NewRelation(3, <<"q">>, <<"b", "o">>, 40), backend)} :
    /\ res' = Result("Create", "R", <<>>, <<>>, out)
    /\ backend' = out.tables
    /\ UNCHANGED <<mapperVars, optionVars, valuesVars, held, runVars>>

Next == Get \/ List \/ Update \/ Delete \/ Create

Spec == Init /\ [][Next]_vars

(***************************************************************************)
(* SpecJoin: the same program joining users and relations and working      *)
(* through the joined Model.                                               *)
(***************************************************************************)
\* joined := Join(ctx, users, relations, opts)
CallJoin ==
    /\ ~mJ.built
    /\ \E opts \in ExecJoinOptions : mJ' = Join(mL, mR, opts)
    /\ UNCHANGED <<mL, mR, optionVars, valuesVars, execVars, runVars>>

\* joined := LeftJoin(ctx, users, relations, opts)
CallLeftJoin ==
    /\ ~mJ.built
    /\ \E opts \in ExecJoinOptions : mJ' = LeftJoin(mL, mR, opts)
    /\ UNCHANGED <<mL, mR, optionVars, valuesVars, execVars, runVars>>

JoinedGet == GetOn({"J"})

JoinedList == ListOn({"J"})

JoinedUpdate == UpdateOn({"J"})

JoinedDelete == DeleteOn({"J"})

JoinNext ==
    \/ CallJoin
    \/ CallLeftJoin
    \/ JoinedGet
    \/ JoinedList
    \/ JoinedUpdate
    \/ JoinedDelete

SpecJoin == Init /\ [][JoinNext]_vars

(***************************************************************************)
(* SpecSchema: the program keeping and writing to what Columns() and       *)
(* ColumnNames() of the users Model gave it, and querying through it.      *)
(***************************************************************************)
\* the columns the program writes a new name to
RenamedPaths == {"Age"}

\* cols := users.Columns()
CallColumns ==
    /\ held.kind = "none"
    /\ held' = [kind |-> "columns", columns |-> Columns(mL), names |-> {}]
    /\ UNCHANGED <<mapperVars, optionVars, valuesVars, backend, res, runVars>>

\* cols.Age.Name = "renamed", on the value Columns() returned
WriteColumns ==
    /\ held.kind = "columns"
    /\ \E fp \in RenamedPaths :
           /\ held.columns[fp].name.Name # "renamed"
           /\ held' = [held EXCEPT !.columns[fp].name.Name = "renamed"]
    /\ UNCHANGED <<mapperVars, optionVars, valuesVars, backend, res, runVars>>

\* names := users.ColumnNames(): the pointers the schema keeps, in the
\* order of a map iteration
CallColumnNames ==
    /\ held.kind = "none"
    /\ held' = [kind |-> "names", columns |-> <<>>,
                names |-> {mL.fieldPathToColumn[fp] : fp \in DOMAIN mL.fieldPathToColumn}]
    /\ UNCHANGED <<mapperVars, optionVars, valuesVars, backend, res, runVars>>

\* a write to the Name of a pointer to Column[int], on an entry of ColumnNames()
WriteColumnNamesEntry ==
    /\ held.kind = "names"
    /\ \E ptr \in held.names \cap RenamedPaths :
           /\ mL.columns[ptr].name.Name # "renamed"
           /\ mL' = [mL EXCEPT !.columns[ptr].name.Name = "renamed"]
    /\ UNCHANGED <<mR, mJ, optionVars, valuesVars, execVars, runVars>>

\* the program drops what it kept
Release ==
    /\ held.kind # "none"
    /\ held' = NoHeld
    /\ UNCHANGED <<mapperVars, optionVars, valuesVars, backend, res, runVars>>

\* users.Table()
CallTable ==
    /\ res' = [NoResult EXCEPT !.op = "Table", !.model = "L", !.outcome = "ok",
                               !.statements = <<Table(mL)>>]
    /\ UNCHANGED <<mapperVars, optionVars, valuesVars, backend, held, runVars>>

SchemaGet == GetOn({"L"})

SchemaList == ListOn({"L"})

SchemaUpdate == UpdateOn({"L"})

SchemaDelete == DeleteOn({"L"})

SchemaNext ==
    \/ CallColumns
    \/ WriteColumns
    \/ CallColumnNames
    \/ WriteColumnNamesEntry
    \/ Release
    \/ CallTable
    \/ SchemaGet
    \/ SchemaList
    \/ SchemaUpdate
    \/ SchemaDelete

SpecSchema == Init /\ [][SchemaNext]_vars

(***************************************************************************)
(* Properties of the executor, the join composer and the schema            *)
(***************************************************************************)
\* the filter list holds an OpOption of the column-compare variant
HasColumnCompare(queries) ==
    \E i \in 1..Len(queries) : queries[i].kind = "OpOption" /\ queries[i].either.isLeft

ExecutorOps == {"Get", "List", "Update", "Delete"}

\* C5: Get, List, Update and Delete on a Model of one table whose filter
\* list holds a column-compare OpOption return an error to the caller, and
\* no statement reaches the backend.
C5_ColumnCompareReturnsError ==
    (res.op \in ExecutorOps /\ res.model \in {"L", "R"} /\ HasColumnCompare(res.queries)) =>
        res.outcome = "error" /\ res.statements = <<>>

\* every statement that reached the backend with a join has a condition
\* after ON
NoEmptyOn ==
    \A i \in 1..Len(res.statements) :
        \A k \in 1..Len(res.statements[i].stmt.joins) :
            res.statements[i].stmt.joins[k].on # ""

\* C6: Join and LeftJoin called without a join condition produce no joined
\* Model, and no statement reaches the backend with an empty ON clause.
C6_JoinWithoutConditionRejected ==
    /\ mJ.built => Len(mJ.config.conditions) > 0
    /\ NoEmptyOn

\* C7: Update with an empty list of update options returns an error and the
\* count 0; no DB handle is obtained, the filter list is not applied, no
\* statement reaches the backend and the tables stay as they were.
C7_EmptyUpdateRejected ==
    [][(res'.op = "Update" /\ Len(res'.updates) = 0) =>
           /\ res'.outcome = "error" /\ res'.err = "empty options" /\ res'.count = 0
           /\ res'.dbCalls = 0
           /\ res'.statements = <<>>
           /\ backend' = backend]_vars

\* an empty Update behind a filter list that panics when it is applied
C7_Witness ==
    /\ res.op = "Update" /\ Len(res.updates) = 0
    /\ HasColumnCompare(res.queries)
    /\ res.outcome = "error" /\ res.dbCalls = 0

\* the column names of a schema, by field path
SchemaNames(m) == [fp \in DOMAIN m.fieldPathToColumn |-> GetColumnName(m, fp)]

\* C9: whatever the program does with the Models and with the values
\* Columns() and ColumnNames() returned, the schema of a Model keeps the
\* column names and table qualifiers NewModel gave it.
C9_SchemaNamesKept ==
    /\ SchemaNames(mL) = SchemaNames(NewModel(KUser, NoInitial))
    /\ SchemaNames(mR) = SchemaNames(NewModel(KRelation, NoInitial))

(***************************************************************************)
(* SpecConc: goroutines that share the joined Model of users and relations *)
(* and call Get and List on it without synchronization, beside goroutines  *)
(* that update and delete users.  A statement is one step of the backend;  *)
(* the scan of a joined row is one step per column.                        *)
(***************************************************************************)
\* Number of goroutines.
MaxGoroutines == 2

Goroutines == 1..MaxGoroutines

\* a goroutine that has not called anything yet
IdleGoroutine ==
    [pc |-> "idle", op |-> "", queries |-> <<>>, opts |-> <<>>, snapshot |-> <<>>,
     values |-> <<>>, row |-> 0, col |-> 0, target |-> <<>>, entities |-> <<>>, err |-> ""]

\* the joined Model the goroutines share
ConcJoinOptions ==
    NewJoinOptions(<< GetterValue(ModelColumn(mL, "Name").name),
                      GetterValue(ModelColumn(mL, "Status").name),
                      GetterValue(ModelColumn(mR, "UserName").name),
                      GetterValue(ModelColumn(mR, "Age").name) >>,
                   <<ColumnCompare(ModelColumn(mL, "Name"), OpEq,
                                   ModelColumn(mR, "UserName")).value>>)

\* the filter lists of the goroutines that read
ConcQueries ==
    { <<>>,
      <<ColumnCompare(ModelColumn(mJ, "Left.Age"), OpGt, PlainOperand(IntV("int", 90))).value>> }

ConcListOptions == [Offset |-> 0, Limit |-> 0, SortOptions |-> <<>>]

\* the value maps db.Take(&values) and db.Find(&valuesList) fill for a
\* joined executor, or the error the statement ends with
FindValues(m, left, right, queries, opts, one, tables, mem) ==
    LET Taken(values) ==
            IF one /\ Len(values) = 0 THEN [err |-> ErrRecordNotFound, values |-> <<>>]
            ELSE [err |-> "", values |-> values]
        Found(stmt, rows) == Taken([i \in 1..Len(rows) |-> ProjectRow(stmt, rows[i])])
        Run(stmt, err) ==
            IF err # "" THEN [err |-> err, values |-> <<>>]
            ELSE Found(stmt, QueryRows(stmt, tables))
        Built(stmt) == Run(stmt, StatementError(stmt))
        Filtered(d, h) ==
            IF d.panic \/ h.panic THEN [err |-> "panic", values |-> <<>>]
            ELSE IF h.err # "" THEN [err |-> h.err, values |-> <<>>]
            ELSE Built(IF one THEN FirstOrTake(m, h.db) ELSE Paged(m, h.db, opts))
    IN  Filtered(ModelDB(m, left, right),
                 applyFilterOptions(newApplyHelper(QueryDB(m, ModelDB(m, left, right))),
                                    m, queries, mem))

\* target := *e.columns: scan fills a copy of the struct the Model keeps
ScanTargetAliased(m) == [shared |-> TRUE, columns |-> <<>>]

ScanTarget(m) == [shared |-> FALSE, columns |-> m.columns]

\* the struct behind a target
TargetColumns(target, m) == IF target.shared THEN m.columns ELSE target.columns

\* the callback of scan on the column at a field path: nothing to do for a
\* name that is no key of the values or whose value is nil, else the value
\* scanned by the serializer of the column or by the Scan of the field
ScanField(m, fp, values) ==
    LET Cell(columnName, v) ==
            IF columnName \in DOMAIN m.columnSerializers THEN JsonScanInto(m.columns[fp].t, v)
            ELSE ConvertAssign(m.columns[fp].form, m.columns[fp].t, v)
        Scanned(cell) == [skip |-> FALSE, err |-> cell.err, value |-> cell.value]
        Named(columnName) ==
            IF columnName \notin DOMAIN values \/ values[columnName].t = "null"
            THEN [skip |-> TRUE, err |-> "", value |-> NoValue]
            ELSE Scanned(Cell(columnName, values[columnName]))
    IN  Named(String(GetColumnName(m, fp)))

ConcInit ==
    /\ mL = NewModel(KUser, NoInitial)
    /\ mR = NewModel(KRelation, NoInitial)
    /\ \E leftJoin \in BOOLEAN :
          mJ = join(mL, mR, ConcJoinOptions.SelectedColumns, ConcJoinOptions.Conditions,
                    leftJoin)
    /\ backend = InitialTables
    /\ res = NoResult
    /\ held = NoHeld
    /\ heap = ExecHeap
    /\ vopt = NoOption /\ got = NoGot /\ OptionIdle
    /\ gor = [g \in Goroutines |-> IdleGoroutine]
    /\ txs = <<>>

\* what the goroutine holds after its statement
Queried(op, queries, found, tables) ==
    [IdleGoroutine EXCEPT
        !.pc = IF found.err # "" \/ Len(found.values) = 0 THEN "done" ELSE "copy",
        !.op = op, !.queries = queries, !.snapshot = tables, !.values = found.values,
        !.row = 1, !.err = found.err]

\* joined.Query(queries...).Get(ctx) up to db.Take(&values)
ConcGet ==
    \E g \in Goroutines : \E queries \in ConcQueries :
        /\ gor[g].pc = "idle"
        /\ \E found \in {FindValues(mJ, mL, mR, queries, ConcListOptions, TRUE, backend, heap)} :
              gor' = [gor EXCEPT ![g] = Queried("Get", queries, found, backend)]
        /\ UNCHANGED <<mapperVars, optionVars, valuesVars, execVars, txs>>

\* joined.Query(queries...).List(ctx, opts) up to db.Find(&valuesList)
ConcList ==
    \E g \in Goroutines : \E queries \in ConcQueries :
        /\ gor[g].pc = "idle"
        /\ \E found \in {FindValues(mJ, mL, mR, queries, ConcListOptions, FALSE, backend, heap)} :
              gor' = [gor EXCEPT ![g] = Queried("List", queries, found, backend)]
        /\ UNCHANGED <<mapperVars, optionVars, valuesVars, execVars, txs>>

\* scan: target := *e.columns
ConcCopy ==
    \E g \in Goroutines :
        /\ gor[g].pc = "copy"
        /\ gor' = [gor EXCEPT ![g].pc = "scan", ![g].col = 1, ![g].target = ScanTarget(mJ)]
        /\ UNCHANGED <<mapperVars, optionVars, valuesVars, execVars, txs>>

\* scan: the callback on the next column of the target
ConcScanField ==
    \E g \in Goroutines :
        /\ gor[g].pc = "scan"
        /\ gor[g].col <= Len(SchemaPaths(mJ))
        /\ \E fp \in {SchemaPaths(mJ)[gor[g].col]} :
           \E cell \in {ScanField(mJ, fp, gor[g].values[gor[g].row])} :
              IF cell.skip
              THEN /\ gor' = [gor EXCEPT ![g].col = @ + 1]
                   /\ UNCHANGED mapperVars
              ELSE IF cell.err # ""
              THEN /\ gor' = [gor EXCEPT ![g].pc = "done", ![g].err = "failed to scan value",
                                         ![g].entities = <<>>]
                   /\ UNCHANGED mapperVars
              ELSE IF gor[g].target.shared
              THEN /\ mJ' = [mJ EXCEPT !.columns[fp].val = cell.value]
                   /\ gor' = [gor EXCEPT ![g].col = @ + 1]
                   /\ UNCHANGED <<mL, mR>>
              ELSE /\ gor' = [gor EXCEPT ![g].col = @ + 1,
                                         ![g].target.columns[fp].val = cell.value]
                   /\ UNCHANGED mapperVars
        /\ UNCHANGED <<optionVars, valuesVars, execVars, txs>>

\* scan: return target, nil; List goes on with the next row
ConcScanned ==
    \E g \in Goroutines :
        /\ gor[g].pc = "scan"
        /\ gor[g].col > Len(SchemaPaths(mJ))
        /\ gor' = [gor EXCEPT
                      ![g].entities = Append(@, TargetColumns(gor[g].target, mJ)),
                      ![g].pc = IF gor[g].row < Len(gor[g].values) THEN "copy" ELSE "done",
                      ![g].row = @ + 1]
        /\ UNCHANGED <<mapperVars, optionVars, valuesVars, execVars, txs>>

\* users.Query(age > 40).Update(ctx, age = 50) in another goroutine
ConcUpdate ==
    \E g \in Goroutines :
        /\ gor[g].pc = "idle"
        /\ \E out \in {ExecutorUpdate(mL, mL, mR,
                          <<ColumnCompare(ModelColumn(mL, "Age"), OpGt,
                                          PlainOperand(IntV("int", 40))).value>>,
                          <<newUpdateOption(ModelColumn(mL, "Name").name, StrV(<<"z">>))>>,
                          backend, heap)} :
              /\ backend' = out.tables
              /\ gor' = [gor EXCEPT ![g].pc = "done", ![g].op = "Update", ![g].err = out.err]
        /\ UNCHANGED <<mapperVars, optionVars, valuesVars, res, held, txs>>

\* users.Query(age > 40).Delete(ctx) in another goroutine
ConcDelete ==
    \E g \in Goroutines :
        /\ gor[g].pc = "idle"
        /\ \E out \in {ExecutorDelete(mL, mL, mR,
                          <<ColumnCompare(ModelColumn(mL, "Age"), OpGt,
                                          PlainOperand(IntV("int", 40))).value>>,
                          backend, heap)} :
              /\ backend' = out.tables
              /\ gor' = [gor EXCEPT ![g].pc = "done", ![g].op = "Delete", ![g].err = out.err]
        /\ UNCHANGED <<mapperVars, optionVars, valuesVars, res, held, txs>>

ConcNext ==
    \/ ConcGet
    \/ ConcList
    \/ ConcCopy
    \/ ConcScanField
    \/ ConcScanned
    \/ ConcUpdate
    \/ ConcDelete

SpecConc == ConcInit /\ [][ConcNext]_vars

\* what the query of a goroutine returns when it runs alone on the tables
\* its statement read
Alone(r) ==
    IF r.op = "Get"
    THEN ExecutorGet(mJ, mL, mR, r.queries, r.snapshot, heap)
    ELSE ExecutorList(mJ, mL, mR, r.queries, ConcListOptions, r.snapshot, heap)

ReturnedAsAlone ==
    \A g \in Goroutines :
        (gor[g].pc = "done" /\ gor[g].op \in {"Get", "List"}) =>
            \E alone \in {Alone(gor[g])} :
                /\ gor[g].entities = alone.entities
                /\ gor[g].err = alone.err

\* the Models hold what NewModel and join built
SchemaAsBuilt ==
    /\ mL = NewModel(KUser, NoInitial)
    /\ mR = NewModel(KRelation, NoInitial)
    /\ mJ = join(mL, mR, ConcJoinOptions.SelectedColumns, ConcJoinOptions.Conditions,
                 mJ.config.leftJoin)

\* C11: whatever goroutines run Get, List, Update and Delete through the
\* Models at the same time, the columns, the fieldPathToColumn and the
\* columnSerializers of every Model stay as they were built, and the
\* records and the error a finished Get or List returns are those of the
\* same call running alone.
C11_ConcurrentQueriesKeepSchema == SchemaAsBuilt /\ ReturnedAsAlone

\* a List has returned both rows of the left join, the second with the
\* relation's columns at zero, while another goroutine is in the middle of
\* its own scan of the first row
C11_Witness ==
    \E g, h \in Goroutines :
        /\ g # h
        /\ gor[g].pc = "done" /\ gor[g].op = "List" /\ Len(gor[g].entities) = 2
        /\ gor[g].entities[1]["Right.UserName"].val # NoValue
        /\ gor[h].pc = "scan" /\ gor[h].col > 2 /\ gor[h].row = 1

(***************************************************************************)
(* SpecTx: a program that calls the TransactionFunc of NewTransactionFunc, *)
(* deletes and updates users through the context it is handed, calls the   *)
(* TransactionFunc again inside, and returns an error or nil.  The backend *)
(* keeps the tables as the one connection of the transaction sees them.    *)
(***************************************************************************)
\* Deepest nesting of TransactionFunc calls.
MaxTxDepth == 3

\* Most changes the program makes.
MaxTxChanges == 3

\* Most calls of the TransactionFunc the program makes.
MaxTxCalls == 4

\* no call of a TransactionFunc has returned in the last step
NoTxReturn == [kind |-> "", before |-> <<>>, err |-> FALSE]

\* the program has opened no transaction yet
TxClosed(tables) ==
    [frames |-> <<>>, savepoints |-> <<>>, nested |-> tables, last |-> NoTxReturn,
     changes |-> 0, calls |-> 0]

\* TransactionFrom(ctx) != nil: the context carries a transaction
TransactionFrom(frames) == Len(frames) > 0

\* fmt.Sprintf("sp%p", fc): %p of a func value is its code pointer, and
\* every closure NewTransactionFunc passes to tx.Transaction is made from
\* the one func literal
SavePointName(literal) == "sp" \o literal

NestedLiteral == "part_003:40"

\* db.SavePoint(name): SAVEPOINT name; names need not differ
SavePoint(savepoints, name, tables) == Append(savepoints, [name |-> name, tables |-> tables])

\* db.RollbackTo(name): ROLLBACK TO SAVEPOINT name goes back to the most
\* recent savepoint of that name, which stays; the later ones are gone
RollbackTo(savepoints, name, tables) ==
    LET At(hits) ==
            IF hits = {} THEN [tables |-> tables, savepoints |-> savepoints]
            ELSE LET Last(k) == [tables |-> savepoints[k].tables,
                                 savepoints |-> SubSeq(savepoints, 1, k)]
                 IN  Last(CHOOSE k \in hits : \A j \in hits : j <= k)
    IN  At({k \in 1..Len(savepoints) : savepoints[k].name = name})

\* (*gorm.DB).Transaction after fc has returned, keeping every change
GormTransactionCommitting(frame, err, savepoints, tables) ==
    [err |-> err, tables |-> tables, savepoints |-> savepoints]

\* (*gorm.DB).Transaction after fc has returned: a nested one rolls back to
\* its savepoint on an error and leaves the savepoint alone otherwise, the
\* outermost rolls back on an error and commits otherwise
GormTransaction(frame, err, savepoints, tables) ==
    IF frame.nested
    THEN (IF err
          THEN [err |-> err] @@ RollbackTo(savepoints, frame.name, tables)
          ELSE [err |-> err, tables |-> tables, savepoints |-> savepoints])
    ELSE (IF err
          THEN [err |-> err, tables |-> frame.before, savepoints |-> <<>>]
          ELSE [err |-> err, tables |-> tables, savepoints |-> <<>>])

TxInit ==
    /\ mL = NewModel(KUser, NoInitial)
    /\ mR = NewModel(KRelation, NoInitial)
    /\ mJ = NoModel
    /\ backend = InitialTables
    /\ res = NoResult
    /\ held = NoHeld
    /\ heap = ExecHeap
    /\ vopt = NoOption /\ got = NoGot /\ OptionIdle
    /\ gor = <<>>
    /\ txs = TxClosed(InitialTables)

\* Transaction(ctx, run): tx.Transaction when ctx carries a transaction
\* (SAVEPOINT), db.Transaction otherwise (BEGIN); run starts
TxCall ==
    /\ Len(txs.frames) < MaxTxDepth
    /\ txs.calls < MaxTxCalls
    /\ \E nested \in {TransactionFrom(txs.frames)} :
          txs' = [txs EXCEPT
                    !.frames = Append(@, [nested |-> nested,
                                          name |-> SavePointName(NestedLiteral),
                                          before |-> backend, expected |-> txs.nested]),
                    !.savepoints = IF nested
                                   THEN SavePoint(@, SavePointName(NestedLiteral), backend)
                                   ELSE @,
                    !.calls = @ + 1,
                    !.last = NoTxReturn]
    /\ UNCHANGED <<mapperVars, optionVars, valuesVars, execVars, gor>>

\* the filter ID = id of users
UserById(id) ==
    <<ColumnCompare(ModelColumn(mL, "ID"), OpEq, PlainOperand(IntV("uint64", id))).value>>

\* the update list age = 50
NewAge == <<newUpdateOption(ModelColumn(mL, "Age").name, IntV("int", 50))>>

\* inside run: users.Query(ID = id).Delete(ctx)
TxDelete ==
    /\ TransactionFrom(txs.frames)
    /\ txs.changes < MaxTxChanges
    /\ \E id \in {1, 2} :
       \E out \in {ExecutorDelete(mL, mL, mR, UserById(id), backend, heap)} :
       \E want \in {ExecutorDelete(mL, mL, mR, UserById(id), txs.nested, heap)} :
          /\ backend' = out.tables
          /\ txs' = [txs EXCEPT !.nested = want.tables, !.changes = @ + 1,
                                !.last = NoTxReturn]
    /\ UNCHANGED <<mapperVars, optionVars, valuesVars, res, held, gor>>

\* inside run: users.Query(ID = id).Update(ctx, age = 50)
TxUpdate ==
    /\ TransactionFrom(txs.frames)
    /\ txs.changes < MaxTxChanges
    /\ \E id \in {1, 2} :
       \E out \in {ExecutorUpdate(mL, mL, mR, UserById(id), NewAge, backend, heap)} :
       \E want \in {ExecutorUpdate(mL, mL, mR, UserById(id), NewAge, txs.nested, heap)} :
          /\ backend' = out.tables
          /\ txs' = [txs EXCEPT !.nested = want.tables, !.changes = @ + 1,
                                !.last = NoTxReturn]
    /\ UNCHANGED <<mapperVars, optionVars, valuesVars, res, held, gor>>

\* run returns an error or nil, and the TransactionFunc returns
TxReturn ==
    /\ TransactionFrom(txs.frames)
    /\ \E err \in BOOLEAN :
       \E frame \in {txs.frames[Len(txs.frames)]} :
       \E done \in {GormTransaction(frame, err, txs.savepoints, backend)} :
          /\ backend' = done.tables
          /\ txs' = [txs EXCEPT
                        !.frames = SubSeq(@, 1, Len(@) - 1),
                        !.savepoints = done.savepoints,
                        !.nested = IF err THEN frame.expected ELSE @,
                        !.last = [kind |-> (IF frame.nested THEN "nested" ELSE "outer")
                                           \o (IF err THEN "Error" ELSE "Nil"),
                                  before |-> frame.before, err |-> done.err]]
    /\ UNCHANGED <<mapperVars, optionVars, valuesVars, res, held, gor>>

TxNext == TxCall \/ TxDelete \/ TxUpdate \/ TxReturn

SpecTx == TxInit /\ [][TxNext]_vars

\* C12: when the function of the outermost TransactionFunc call returns an
\* error, the call returns an error and the tables hold what they held
\* before the call, whatever was changed in it and in the calls nested in
\* it and whatever those returned.
C12_OuterErrorRollsBackAll ==
    txs.last.kind = "outerError" => (txs.last.err /\ backend = txs.last.before)

\* the outermost call has returned an error after changes were made
C12_Witness ==
    /\ txs.last.kind = "outerError"
    /\ txs.changes = MaxTxChanges /\ txs.calls >= 2
    /\ backend = InitialTables

\* C13: a TransactionFunc called with a context that carries a transaction
\* is a nested transaction: when its function returns an error the tables
\* go back to what they held at its call, and when the outermost function
\* returns nil the call returns nil and the tables hold the changes of the
\* functions that did not return an error, and no others.
C13_NestedErrorRollsBackNested ==
    /\ txs.last.kind = "nestedError" => backend = txs.last.before
    /\ txs.last.kind = "outerNil" => (~txs.last.err /\ backend = txs.nested)

(***************************************************************************)
(* SpecSelect: users and relations joined under each kind of join, each    *)
(* selection and each condition below; the program reads through the       *)
(* joined Model while it updates, deletes and creates rows through the     *)
(* two Models.                                                             *)
(***************************************************************************)
\* the selections and conditions of the joined Model
SelectJoinOptions ==
    LET L(fp) == GetterValue(ModelColumn(mL, fp).name)
        R(fp) == GetterValue(ModelColumn(mR, fp).name)
        byName == <<ColumnCompare(ModelColumn(mL, "Name"), OpEq, ModelColumn(mR, "UserName")).value>>
        byAge == <<ColumnCompare(ModelColumn(mL, "Age"), OpGt, ModelColumn(mR, "Age")).value,
                   ColumnCompare(ModelColumn(mL, "ID"), OpNe, ModelColumn(mR, "ID")).value>>
    IN  { NewJoinOptions(selected, conditions) :
            selected \in { <<L("Name"), L("Status"), L("Address"), R("ID"), R("Age")>>,
                           <<R("Name")>>,
                           <<L("Age"), L("DeletedAt")>> },
            conditions \in {byName, byAge} }

SelectInit ==
    /\ mL = NewModel(KUser, NoInitial)
    /\ mR = NewModel(KRelation, NoInitial)
    /\ \E opts \in SelectJoinOptions :
          mJ \in {Join(mL, mR, opts), LeftJoin(mL, mR, opts)}
    /\ backend = InitialTables
    /\ res = NoResult
    /\ held = NoHeld
    /\ heap = ExecHeap
    /\ vopt = NoOption /\ got = NoGot /\ OptionIdle
    /\ RunIdle

\* joined.Query(queries...).List(ctx, opts), the options kept beside the
\* result
SelectList ==
    \E queries \in Queries("J"), opts \in Lists("J") :
        \E out \in {ExecutorList(mJ, mL, mR, queries, opts, backend, heap)} :
        /\ res' = [opts |-> opts] @@ Result("List", "J", queries, <<>>, out)
        /\ backend' = out.tables
        /\ UNCHANGED <<mapperVars, optionVars, valuesVars, held, runVars>>

SelectNext == SelectList \/ JoinedGet \/ Update \/ Delete \/ Create

SpecSelect == SelectInit /\ [][SelectNext]_vars

\* the rows of the two tables the join puts side by side: a live row of
\* the left table (an index of its table) with a row of the right table
\* the conditions hold for, or under a left join with no row (index 0)
\* when they hold for none
OnHolds(m, l, r) ==
    LET value(cn) == IF cn.table = m.config.leftTable THEN l[cn.Name] ELSE r[cn.Name]
        holds(c) == SqlCompare(value(c.left), c.op, value(c.right))
    IN  \A i \in 1..Len(m.config.conditions) : holds(MustLeft(m.config.conditions[i]).value)

LiveLeft(m, tables) ==
    { i \in 1..Len(tables[m.config.leftTable]) :
        m.config.leftTable \in SoftDeleteTables =>
            tables[m.config.leftTable][i]["deleted_at"].t = "null" }

Unmatched(m, tables) ==
    { i \in LiveLeft(m, tables) :
        \A j \in 1..Len(tables[m.config.rightTable]) :
            ~OnHolds(m, tables[m.config.leftTable][i], tables[m.config.rightTable][j]) }

JoinedPairs(m, tables) ==
    { p \in LiveLeft(m, tables) \X (1..Len(tables[m.config.rightTable])) :
        OnHolds(m, tables[m.config.leftTable][p[1]], tables[m.config.rightTable][p[2]]) }
    \cup (IF m.config.leftJoin THEN Unmatched(m, tables) \X {0} ELSE {})

\* the value the row pair p holds under a qualified column name
PairValue(m, tables, p, name) ==
    LET side(table, i) ==
            IF i = 0 THEN Qualified(table, NullRow(table))
            ELSE Qualified(table, tables[table][i])
    IN  (side(m.config.leftTable, p[1]) @@ side(m.config.rightTable, p[2]))[name]

\* the qualified names the caller selected
SelectedNames(m) ==
    { Full(m.config.selectedColumns[i].cn) : i \in 1..Len(m.config.selectedColumns) }

\* the Go value of a field for the value v of its column: the zero value
\* for NULL, the unmarshalled value behind a serializer, v itself otherwise
FieldOf(m, fp, v) ==
    IF v.t = "null" THEN ZeroColumns(TypeOf(m.T))[fp].val
    ELSE IF String(m.columns[fp].name) \in DOMAIN m.columnSerializers
    THEN JsonUnmarshalStatus(v.s).value
    ELSE [v EXCEPT !.t = m.columns[fp].t]

\* the field fp of entity is at the zero value / holds v
AtZero(m, entity, fp) == entity[fp].val = ZeroColumns(TypeOf(m.T))[fp].val

\* the entity a List or Get is to return for the row pair p
EntityOf(m, tables, p) ==
    [fp \in DOMAIN m.columns |->
        IF String(m.columns[fp].name) \in SelectedNames(m)
        THEN [m.columns[fp] EXCEPT
                 !.val = FieldOf(m, fp, PairValue(m, tables, p, String(m.columns[fp].name)))]
        ELSE [m.columns[fp] EXCEPT !.val = ZeroColumns(TypeOf(m.T))[fp].val]]

RightPaths(m) == { fp \in DOMAIN m.columns : SubSeq(fp, 1, 6) = "Right." }

\* a read through the joined Model has returned
JoinedRead == res.model = "J" /\ res.op \in {"Get", "List"}

\* a List of everything: no filter, no limit, no offset
ListedAll ==
    /\ res.model = "J" /\ res.op = "List" /\ "opts" \in DOMAIN res
    /\ res.queries = <<>> /\ res.opts.Limit = 0 /\ res.opts.Offset = 0

\* C14: a List of everything through a left join returns no error, and every
\* left row without a matching right row is in the result exactly as often
\* as the join yields it (once, unless another row pair gives the same
\* record), with every right-side column at its zero value; and no read
\* through a joined Model fails to scan: every record returned has the
\* fields whose column is absent from the row or NULL at the zero value.
C14_UnmatchedLeftRowsKept ==
    /\ (ListedAll /\ mJ.config.leftJoin) =>
          /\ res.outcome = "ok"
          /\ \A i \in Unmatched(mJ, backend) :
                \E e \in {EntityOf(mJ, backend, <<i, 0>>)} :
                   /\ \A fp \in RightPaths(mJ) : AtZero(mJ, e, fp)
                   /\ Cardinality({k \in 1..Len(res.entities) : res.entities[k] = e})
                        = Cardinality({p \in JoinedPairs(mJ, backend) :
                                          EntityOf(mJ, backend, p) = e})
    /\ JoinedRead =>
          /\ res.err \notin {"failed to scan", "failed to scan value"}
          /\ \A k \in 1..Len(res.entities) :
                \E p \in JoinedPairs(mJ, backend) :
                   \A fp \in DOMAIN mJ.columns :
                      \E name \in {String(mJ.columns[fp].name)} :
                         IF name \notin SelectedNames(mJ)
                            \/ PairValue(mJ, backend, p, name).t = "null"
                         THEN AtZero(mJ, res.entities[k], fp)
                         ELSE res.entities[k][fp].val # NoValue

\* a List of everything through a left join has returned the user without
\* a relation, the relation's columns at zero and the NULL address too,
\* beside the user with one
C14_Witness ==
    /\ ListedAll /\ mJ.config.leftJoin /\ Len(res.entities) = 2
    /\ Cardinality(Unmatched(mJ, backend)) = 1
    /\ \E k \in 1..2 :
          /\ res.entities[k]["Right.Age"].val = NoValue
          /\ res.entities[k]["Left.Name"].val # NoValue
          /\ res.entities[k]["Left.Address"].val = NoValue
          /\ res.entities[3 - k]["Right.Age"].val # NoValue

JoinConditions(m) == [i \in 1..Len(m.config.conditions) |-> MustLeft(m.config.conditions[i]).value]

\* the term of one condition and the clause of a list of them
OnTerm(c) == Full(c.left) \o " " \o c.op \o " " \o Full(c.right)

RECURSIVE OnClause(_)
OnClause(conds) ==
    IF Len(conds) = 0 THEN ""
    ELSE IF Len(conds) = 1 THEN OnTerm(conds[1])
    ELSE OnClause(SubSeq(conds, 1, Len(conds) - 1)) \o " AND " \o OnTerm(conds[Len(conds)])

\* C16: every statement a joined Model sends to the backend has one join
\* whose ON clause holds a term for each condition of the JoinOptions, in
\* their order, each the Full name of the left column, the operator of the
\* condition and the Full name of the right column, with AND between them.
C16_OnClauseTerms ==
    res.model = "J" =>
        \A i \in 1..Len(res.statements) :
            \E joins \in {res.statements[i].stmt.joins}, conds \in {JoinConditions(mJ)} :
                /\ Len(joins) = 1
                /\ joins[1].on = OnClause(conds)
                /\ Len(joins[1].terms) = Len(conds)
                /\ \A k \in 1..Len(conds) :
                      joins[1].terms[k] = [left |-> Full(conds[k].left), op |-> conds[k].op,
                                           right |-> Full(conds[k].right)]

\* a statement of a join on two conditions has reached the backend
C16_Witness ==
    /\ res.model = "J" /\ Len(mJ.config.conditions) = 2 /\ Len(res.statements) > 0
    /\ res.statements[1].stmt.joins[1].on = "users.age > relations.age AND users.id != relations.id"

\* the Models inner and outer, built by Join and by LeftJoin, have the same
\* table name, columns and serializers, and their closures send the same
\* table, projection and ON clause, after INNER JOIN and LEFT JOIN
SameButOperator(inner, outer, left, right) ==
    LET SameClauses(di, do) ==
            /\ di.panic = do.panic
            /\ ~di.panic =>
                  /\ di.db.model = do.db.model
                  /\ di.db.selects = do.db.selects /\ di.db.selectText = do.db.selectText
                  /\ Len(di.db.joins) = 1 /\ Len(do.db.joins) = 1
                  /\ di.db.joins[1].on = do.db.joins[1].on
                  /\ di.db.joins[1].terms = do.db.joins[1].terms
                  /\ di.db.joins[1].table = do.db.joins[1].table
                  /\ di.db.joins[1].kind = "INNER JOIN" /\ do.db.joins[1].kind = "LEFT JOIN"
                  /\ \E rest \in {" " \o di.db.joins[1].table \o " on " \o di.db.joins[1].on} :
                        /\ di.db.joins[1].text = "INNER JOIN" \o rest
                        /\ do.db.joins[1].text = "LEFT JOIN" \o rest
    IN  /\ inner.built = outer.built /\ inner.panic = outer.panic
        /\ inner.T = outer.T /\ inner.joined = outer.joined
        /\ inner.tableName = outer.tableName
        /\ inner.columns = outer.columns
        /\ inner.fieldPathToColumn = outer.fieldPathToColumn
        /\ inner.columnSerializers = outer.columnSerializers
        /\ SameClauses(Initial(NewSession, inner.config, left, right, inner),
                       Initial(NewSession, outer.config, left, right, outer))

\* C17: the Model Join built and the Model LeftJoin builds from the same
\* Models and JoinOptions (and the other way round) have the same table
\* name, the same column under every field path, the same selection and
\* the same ON clause; one asks the backend for INNER JOIN, the other for
\* LEFT JOIN.
C17_JoinKindOnlyOperator ==
    mJ.built =>
        \A opts \in MapperJoinOptions(mL, mR) :
            /\ mJ = Join(mL, mR, opts) => SameButOperator(mJ, LeftJoin(mL, mR, opts), mL, mR)
            /\ mJ = LeftJoin(mL, mR, opts) => SameButOperator(Join(mL, mR, opts), mJ, mL, mR)

\* users and relations left-joined on their first columns, the users'
\* columns selected
C17_Witness ==
    /\ mJ.built /\ mJ.config.leftJoin /\ mL.T = KUser /\ mR.T = KRelation
    /\ Len(mJ.config.selectedColumns) > 1
    /\ Initial(NewSession, mJ.config, mL, mR, mJ).db.joins[1].text
           = "LEFT JOIN relations on users.id = relations.id"

\* an ancestor that is embedded (by the setting or as an anonymous field)
\* and declares a prefix
Contributes(pf) == pf.Tag.EMBEDDEDPREFIX # "" /\ (pf.Tag.EMBEDDED # "" \/ pf.Anonymous)

\* the prefixes of the ancestors that contribute, outer to inner
RECURSIVE ContributedPrefixes(_)
ContributedPrefixes(ancestors) ==
    IF Len(ancestors) = 0 THEN ""
    ELSE (IF Contributes(Head(ancestors)) THEN Head(ancestors).Tag.EMBEDDEDPREFIX ELSE "")
             \o ContributedPrefixes(Tail(ancestors))

Ancestors(p) == SubSeq(p, 1, Len(p) - 1)

\* C19: the name of a column is its bare name behind the prefixes of those
\* ancestors that are embedded and declare a non-empty prefix; an ancestor
\* that is embedded without a prefix, or declares a prefix without being
\* embedded, adds nothing.  In User, Weight is embedded_weight and Data,
\* below Extra (prefix extra_) and Inner (embedded, no prefix), extra_data.
C19_PrefixOnlyFromEmbedded ==
    (mL.built /\ ~mL.joined) =>
        /\ \A p \in ComponentPaths(mL.T) :
              String(GetColumnName(mL, FieldPath(p)))
                  = ContributedPrefixes(Ancestors(p)) \o BareName(p[Len(p)])
        /\ mL.T = KUser =>
              /\ String(GetColumnName(mL, "Embedded.Weight")) = "embedded_weight"
              /\ String(GetColumnName(mL, "Extra.Inner.Data")) = "extra_data"

\* a leaf below an ancestor that declares b_ without being embedded and an
\* embedded one that declares a_
C19_Witness ==
    /\ mL.built /\ ~mL.joined
    /\ \E p \in ComponentPaths(mL.T) :
           /\ Len(p) = 3
           /\ p[1].Tag.EMBEDDEDPREFIX = "b_" /\ ~Contributes(p[1])
           /\ p[2].Tag.EMBEDDEDPREFIX = "a_" /\ Contributes(p[2])
           /\ String(GetColumnName(mL, FieldPath(p))) = "a_leaf"

\* C20: below ancestors that contribute no prefix, a column is named by the
\* column setting of its field when it has one, by the naming strategy
\* applied to the name of the field otherwise.  In User, Name (column
\* user_name) is user_name and CreatedAt is created_at.
C20_BareNameOverrideOrNaming ==
    (mL.built /\ ~mL.joined) =>
        /\ \A p \in ComponentPaths(mL.T) :
              (\A i \in 1..(Len(p) - 1) : ~Contributes(p[i])) =>
                  String(GetColumnName(mL, FieldPath(p)))
                      = IF p[Len(p)].Tag.COLUMN # "" THEN p[Len(p)].Tag.COLUMN
                        ELSE NamingColumnName(p[Len(p)].Name)
        /\ mL.T = KUser =>
              /\ String(GetColumnName(mL, "Name")) = "user_name"
              /\ String(GetColumnName(mL, "CreatedAt")) = "created_at"

\* the Model of User, with the overridden Name and the converted CreatedAt
C20_Witness ==
    /\ mL.built /\ mL.T = KUser
    /\ \E p \in ComponentPaths(mL.T) :
           /\ Len(p) = 1 /\ p[1].Name = "Name" /\ p[1].Tag.COLUMN = "user_name"
           /\ String(GetColumnName(mL, FieldPath(p))) = "user_name"
    /\ Full(GetColumnName(mL, "CreatedAt")) = "users.created_at"

\* two Models have the same table name and, field path by field path, the
\* same column name and serializer
SameSchema(a, b) ==
    /\ a.panic = b.panic
    /\ a.tableName = b.tableName
    /\ DOMAIN a.fieldPathToColumn = DOMAIN b.fieldPathToColumn
    /\ \A fp \in DOMAIN a.fieldPathToColumn : GetColumnName(a, fp) = GetColumnName(b, fp)
    /\ a.columnSerializers = b.columnSerializers

RoundUpdates(id) ==
    IF id = "L"
    THEN { <<newUpdateOption(ModelColumn(mL, "Age").name, IntV("int", 50))>>,
           <<newUpdateOption(ModelColumn(mL, "Status").name, StatusV(<<"S">>))>>,
           <<newUpdateOption(ModelColumn(mL, "Address").name, StrV(<<"a">>))>> }
    ELSE { <<newUpdateOption(ModelColumn(mR, "Age").name, IntV("int", 50))>> }

\* m.Query(queries...).Update(ctx, opt)
RoundUpdate ==
    \E id \in {"L", "R"} : \E queries \in Queries(id), opts \in RoundUpdates(id) :
        \E out \in {ExecutorUpdate(ModelOf(id), mL, mR, queries, opts, backend, heap)} :
        /\ res' = [before |-> backend] @@ Result("Update", id, queries, opts, out)
        /\ backend' = out.tables
        /\ UNCHANGED <<mapperVars, optionVars, valuesVars, held, runVars>>

RoundNext == RoundUpdate \/ Delete \/ Create

SpecRound == Init /\ [][RoundNext]_vars

\* ListOptions{}
ListEverything == [Offset |-> 0, Limit |-> 0, SortOptions |-> <<>>]

\* an Update of one option has returned without error
Updated == res.op = "Update" /\ res.outcome = "ok" /\ "before" \in DOMAIN res

\* the field path of the column an update option names
UpdatedPath(m, opt) == CHOOSE fp \in DOMAIN m.columns : m.columns[fp].name = opt.name

\* reading back after an update: was are the records the filter selected
\* before it, old all records before it, now all records after it
ReadBack(m, fp, v, count, was, old, now) ==
    /\ was.outcome = "ok" /\ old.outcome = "ok" /\ now.outcome = "ok"
    /\ count = Len(was.entities)
    /\ Len(now.entities) = Len(old.entities)
    /\ \A k \in 1..Len(now.entities) :
          IF \E j \in 1..Len(was.entities) : was.entities[j]["ID"] = old.entities[k]["ID"]
          THEN /\ now.entities[k][fp].val = v
               /\ \A other \in DOMAIN m.columns \ {fp} :
                     now.entities[k][other] = old.entities[k][other]
          ELSE now.entities[k] = old.entities[k]

\* C21: after an Update of one option (column c, value v) that returned no
\* error, the count returned is the number of rows the filter selected,
\* reading the rows back through the same Model gives v in column c of
\* those rows, also behind a serializer, and every other row and column
\* as before; the rows of the table the filter did not select and the
\* other table are unchanged.
C21_UpdateRoundTrip ==
    Updated =>
        \E m \in {ModelOf(res.model)} :
            /\ ReadBack(m, UpdatedPath(m, res.updates[1]), res.updates[1].value, res.count,
                        ExecutorList(m, mL, mR, res.queries, ListEverything, res.before, heap),
                        ExecutorList(m, mL, mR, <<>>, ListEverything, res.before, heap),
                        ExecutorList(m, mL, mR, <<>>, ListEverything, backend, heap))
            /\ \A t \in DOMAIN backend :
                  /\ Len(backend[t]) = Len(res.before[t])
                  /\ t # m.tableName => backend[t] = res.before[t]
                  /\ \A i \in 1..Len(backend[t]) :
                        backend[t][i]["id"] = res.before[t][i]["id"]

\* the status of one of two users was updated through its serializer
C21_Witness ==
    /\ Updated /\ res.model = "L" /\ res.count = 1 /\ Len(res.queries) > 0
    /\ res.updates[1].value = StatusV(<<"S">>)
    /\ \E i, j \in 1..Len(backend.users) :
          /\ backend.users[i]["status"] = JsonMarshal(StatusV(<<"S">>))
          /\ res.before.users[i]["status"] = JsonMarshal(StatusV(<<"T">>))
          /\ backend.users[j]["status"] = res.before.users[j]["status"]
          /\ backend.users[j]["deleted_at"].t = "null" /\ i # j

(***************************************************************************)
(* The reference predicate of a filter list on the rows of the table of a  *)
(* Model: what each option asks of the value of its column.                *)
(***************************************************************************)
\* the value a column is stored as: the JSON text behind a serializer
RefStored(m, column, v) == IF column \in DOMAIN m.columnSerializers THEN JsonMarshal(v) ELSE v

\* part is a substring of text
RefContains(text, part) ==
    \E k \in 1..(Len(text) - Len(part) + 1) : SubSeq(text, k, k + Len(part) - 1) = part

\* the row satisfies one option
RefOption(m, opt, row, mem) ==
    LET Member(column, vs) ==
            \E k \in 1..Len(vs) : SqlCompare(row[column], OpEq, RefStored(m, column, vs[k]))
        Fuzzy(column, vs) ==
            /\ row[column].t # "null"
            /\ \E k \in 1..Len(vs) : RefContains(TextOf(row[column]), FormatV(vs[k]))
        Compared(q) == SqlCompare(row[String(q.name)], q.op, RefStored(m, String(q.name), q.value))
    IN  CASE opt.kind = "OpOption" -> Compared(opt.either.right)
          [] opt.kind = "RangeQuery" ->
                IF opt.exclude
                THEN row[String(opt.name)].t # "null" /\ ~Member(String(opt.name), GetValues(opt, mem))
                ELSE Member(String(opt.name), GetValues(opt, mem))
          [] OTHER -> Fuzzy(String(opt.name), GetValues(opt, mem))

\* the row satisfies every option of the list
RefOptions(m, queries, row, mem) ==
    \A i \in 1..Len(queries) : RefOption(m, queries[i], row, mem)

\* the positions of the rows of its table a filter list selects: the rows
\* that are not deleted and satisfy every option
RefSelected(m, queries, tables, mem) ==
    { i \in 1..Len(tables[m.tableName]) :
        /\ m.tableName \in SoftDeleteTables => tables[m.tableName][i]["deleted_at"].t = "null"
        /\ RefOptions(m, queries, tables[m.tableName][i], mem) }

\* the record of a row of the table of a Model
RefRecord(m, tables, i) == GormScan(m.T, Qualified(m.tableName, tables[m.tableName][i])).entity

\* C22: a Get whose filter selects no row, also when the row it would
\* select was deleted before, returns the error record not found and no
\* record; a Get whose filter selects a row returns one of the selected
\* rows and no error.
C22_GetNotFound ==
    (res.op = "Get" /\ res.model \in {"L", "R"} /\ ~HasColumnCompare(res.queries)) =>
        \E m \in {ModelOf(res.model)} :
            \E hit \in {RefSelected(m, res.queries, backend, heap)} :
                IF hit = {}
                THEN res.outcome = "error" /\ res.err = ErrRecordNotFound /\ res.entities = <<>>
                ELSE /\ res.outcome = "ok" /\ res.err = "" /\ Len(res.entities) = 1
                     /\ \E i \in hit : res.entities[1] = RefRecord(m, backend, i)

\* a Get that found nothing because the user its filter asks for was
\* deleted
C22_Witness ==
    /\ res.op = "Get" /\ res.model = "L" /\ res.err = ErrRecordNotFound
    /\ Len(res.queries) > 0 /\ ~HasColumnCompare(res.queries)
    /\ \E i \in 1..Len(backend.users) :
          /\ backend.users[i]["deleted_at"].t # "null"
          /\ RefOptions(mL, res.queries, backend.users[i], heap)

(***************************************************************************)
(* SpecFilter: the program lists, updates and deletes users behind filter  *)
(* lists of every kind of option, among them In, NotIn and FuzzyIn of a    *)
(* slice without elements.                                                 *)
(***************************************************************************)
\* the filter lists of the program
FilterQueries ==
    LET age == ModelColumn(mL, "Age")
        name == ModelColumn(mL, "Name")
        address == ModelColumn(mL, "Address")
        older == ColumnCompare(age, OpGt, PlainOperand(IntV("int", 40))).value
    IN  { <<older>>,
          <<ColumnIn(age, SliceOf(1, 2))>>, <<ColumnIn(age, SliceOf(1, 0))>>,
          <<ColumnNotIn(age, SliceOf(1, 1))>>, <<ColumnNotIn(age, SliceOf(1, 0))>>,
          <<ColumnNotIn(address, SliceOf(2, 1))>>,
          <<ColumnFuzzyIn(name, SliceOf(2, 1))>>, <<ColumnFuzzyIn(name, SliceOf(2, 0))>>,
          <<older, ColumnFuzzyIn(name, SliceOf(2, 0))>>,
          <<ColumnIn(age, SliceOf(1, 2)), older, ColumnFuzzyIn(name, SliceOf(2, 1))>>,
          <<ColumnFuzzyIn(name, SliceOf(2, 1)), ColumnNotIn(age, SliceOf(1, 1))>> }

\* users.Query(queries...).List(ctx, ListOptions{})
FilterList ==
    \E queries \in FilterQueries :
        \E out \in {ExecutorList(mL, mL, mR, queries, ListEverything, backend, heap)} :
        /\ res' = [before |-> backend] @@ Result("List", "L", queries, <<>>, out)
        /\ backend' = out.tables
        /\ UNCHANGED <<mapperVars, optionVars, valuesVars, held, runVars>>

\* users.Query(queries...).Update(ctx, Age.Update(50))
FilterUpdate ==
    \E queries \in FilterQueries, opts \in Updates("L") \ {<<>>} :
        \E out \in {ExecutorUpdate(mL, mL, mR, queries, opts, backend, heap)} :
        /\ res' = [before |-> backend] @@ Result("Update", "L", queries, opts, out)
        /\ backend' = out.tables
        /\ UNCHANGED <<mapperVars, optionVars, valuesVars, held, runVars>>

\* users.Query(queries...).Delete(ctx)
FilterDelete ==
    \E queries \in FilterQueries :
        \E out \in {ExecutorDelete(mL, mL, mR, queries, backend, heap)} :
        /\ res' = [before |-> backend] @@ Result("Delete", "L", queries, <<>>, out)
        /\ backend' = out.tables
        /\ UNCHANGED <<mapperVars, optionVars, valuesVars, held, runVars>>

FilterNext == FilterList \/ FilterUpdate \/ FilterDelete

SpecFilter == Init /\ [][FilterNext]_vars

\* the rows of users before and after a write differ exactly in the rows
\* hit, each of which holds value in column
WrittenExactly(hit, before, after, column, value) ==
    /\ Len(after) = Len(before)
    /\ \A i \in 1..Len(after) :
          IF i \in hit
          THEN /\ after[i][column] = value
               /\ \A c \in DOMAIN after[i] \ {column} : after[i][c] = before[i][c]
          ELSE after[i] = before[i]

\* the records of the rows at the positions hit, in the order of the table
RECURSIVE RefRecords(_, _, _, _)
RefRecords(m, tables, hit, n) ==
    IF n = 0 THEN <<>>
    ELSE RefRecords(m, tables, hit, n - 1)
             \o (IF n \in hit THEN <<RefRecord(m, tables, n)>> ELSE <<>>)

\* C23: List returns, Update updates and counts, and Delete deletes exactly
\* the rows of the reference predicate: the rows that satisfy every
\* OpOption, hold one of the values of every In option and none of those
\* of every NotIn option (and are not NULL there), and contain one of the
\* values of every FuzzyIn option.
C23_FilterSelectsReference ==
    (res.model = "L" /\ res.outcome = "ok" /\ "before" \in DOMAIN res
         /\ res.op \in {"List", "Update", "Delete"}) =>
        \E hit \in {RefSelected(mL, res.queries, res.before, heap)} :
            CASE res.op = "List" ->
                    res.entities = RefRecords(mL, res.before, hit, Len(res.before.users))
              [] res.op = "Update" ->
                    /\ res.count = Cardinality(hit)
                    /\ WrittenExactly(hit, res.before.users, backend.users, "age",
                                      res.updates[1].value)
              [] OTHER ->
                    WrittenExactly(hit, res.before.users, backend.users, "deleted_at", Now)

(***************************************************************************)
(* SpecPage: the program lists users and relations page by page, sorted    *)
(* and unsorted, between updates, deletes and a create of relations.       *)
(***************************************************************************)
\* the largest Offset and Limit the program asks for
MaxOffset == 3

MaxLimit == 2

\* the sort options of the program on a Model: none, by age, by age
\* descending and then by id
PageSorts(id) ==
    LET age == ModelColumn(ModelOf(id), "Age").name
        pk == ModelColumn(ModelOf(id), "ID").name
    IN  { <<>>, <<ColumnNameSort(age, SortOrderAscending)>>,
          <<ColumnNameSort(age, SortOrderDescending), ColumnNameSort(pk, SortOrderAscending)>> }

\* the filter lists of the program on a Model: none, or an age and above
PageQueries(id) ==
    { <<>>,
      <<ColumnCompare(ModelColumn(ModelOf(id), "Age"), OpGte, PlainOperand(IntV("int", 30))).value>> }

\* the ListOptions of the program
PageOptions(id) ==
    { [Offset |-> offset, Limit |-> limit, SortOptions |-> sorts] :
        offset \in {0, 1, MaxOffset}, limit \in 0..MaxLimit, sorts \in PageSorts(id) }

\* m.Query(queries...).List(ctx, opts) on users or relations
PageList ==
    \E id \in {"L", "R"} : \E queries \in PageQueries(id), opts \in PageOptions(id) :
        \E out \in {ExecutorList(ModelOf(id), mL, mR, queries, opts, backend, heap)} :
        /\ res' = [before |-> backend, opts |-> opts] @@ Result("List", id, queries, <<>>, out)
        /\ backend' = out.tables
        /\ UNCHANGED <<mapperVars, optionVars, valuesVars, held, runVars>>

PageNext == PageList \/ UpdateOn({"R"}) \/ DeleteOn({"R"}) \/ Create

SpecPage == Init /\ [][PageNext]_vars

\* a paged List of a Model that returned
Listed ==
    /\ res.op = "List" /\ res.outcome = "ok" /\ res.model \in {"L", "R"}
    /\ "opts" \in DOMAIN res /\ "before" \in DOMAIN res

\* row a may stand before row b under the sort options: at the first
\* option whose keys differ, a's key is the smaller one (the larger one
\* when the option is descending); NULL is smaller than every value
RefMayPrecede(a, b, sortOptions) ==
    LET key(row, k) == row[String(sortOptions[k].name)]
        less(x, y) == IF x.t = "null" THEN y.t # "null" ELSE y.t # "null" /\ SqlLess(x, y)
        differ(k) == less(key(a, k), key(b, k)) \/ less(key(b, k), key(a, k))
    IN  \A k \in 1..Len(sortOptions) :
            (differ(k) /\ \A j \in 1..(k - 1) : ~differ(j)) =>
                IF sortOptions[k].order = SortOrderDescending
                THEN less(key(b, k), key(a, k))
                ELSE less(key(a, k), key(b, k))

\* the orders of the rows hit that respect the sort options
RefOrders(rows, hit, sortOptions) ==
    { s \in [1..Cardinality(hit) -> hit] :
        /\ \A i, j \in DOMAIN s : i # j => s[i] # s[j]
        /\ \A i, j \in DOMAIN s : i < j => RefMayPrecede(rows[s[i]], rows[s[j]], sortOptions) }

\* how many of n rows are left after skipping offset and taking at most
\* limit, a limit of 0 taking all
RefTaken(n, offset, limit) ==
    LET rest == IF offset < n THEN n - offset ELSE 0
    IN  IF limit # 0 /\ limit < rest THEN limit ELSE rest

\* C24: List returns as total the number of all rows the filter selects,
\* whatever Limit and Offset are, and as entities the selected rows in an
\* order that respects the sort options, without the first Offset of them
\* and at most Limit of the rest; a Limit of 0 takes all the rest, an
\* Offset of 0 skips none.
C24_ListTotalAndPage ==
    Listed =>
        \E m \in {ModelOf(res.model)} :
            \E hit \in {RefSelected(m, res.queries, res.before, heap)} :
                /\ res.count = Cardinality(hit)
                /\ Len(res.entities) = RefTaken(Cardinality(hit), res.opts.Offset, res.opts.Limit)
                /\ \E s \in RefOrders(res.before[m.tableName], hit, res.opts.SortOptions) :
                      \A k \in 1..Len(res.entities) :
                          res.entities[k] = RefRecord(m, res.before, s[res.opts.Offset + k])

\* the second of three selected relations, sorted by age descending, was
\* returned alone with a total of three
C24_Witness ==
    /\ Listed /\ res.model = "R" /\ res.count = 3
    /\ res.opts.Offset = 1 /\ res.opts.Limit = 1 /\ Len(res.opts.SortOptions) = 2
    /\ Len(res.entities) = 1

(***************************************************************************)
(* SpecWalk: the program builds a Model of a declared document type or of  *)
(* a type that is no struct, asks it for its column names, and calls the   *)
(* field walker on a root object.                                          *)
(***************************************************************************)
\* the types the program builds a Model of
WalkTypes == DocTypes \cup {ScalarKey("int"), ScalarKey("*User")}

\* the objects the walker is called on
WalkObjects ==
    UNION { {New(t), NilPointer(t), NonPointer(t)} : t \in {TRelation, ScalarT("int")} }

\* model.ColumnNames: lo.Values of the schema, one pointer per entry; the
\* bag of the pointers returned
ColumnNames(m) ==
    LET ptrs == {m.fieldPathToColumn[fp] : fp \in DOMAIN m.fieldPathToColumn}
    IN  [ptr \in ptrs |->
            Cardinality({fp \in DOMAIN m.fieldPathToColumn : m.fieldPathToColumn[fp] = ptr})]

\* docs := NewModel[T](db): a panic leaves the program without a Model
WalkNewModel ==
    /\ ~mL.built
    /\ \E K \in WalkTypes : \E m \in {NewModel(K, NoInitial)} :
           /\ mL' = IF m.panic THEN mL ELSE m
           /\ res' = [T |-> K] @@ [NoResult EXCEPT !.op = "NewModel", !.model = "L",
                                      !.outcome = IF m.panic THEN "panic" ELSE "ok"]
    /\ UNCHANGED <<mR, mJ, optionVars, valuesVars, backend, held, runVars>>

\* iterateFields(obj, fi) with the callback of NewModel
WalkIterate ==
    \E obj \in WalkObjects : \E walked \in {iterateFieldsOf(obj, FiNewModel)} :
        /\ res' = [root |-> obj] @@
                      [NoResult EXCEPT !.op = "iterateFields", !.err = walked.err,
                                       !.outcome = IF walked.err # "" THEN "error" ELSE "ok",
                                       !.count = Len(walked.visits)]
        /\ UNCHANGED <<mapperVars, optionVars, valuesVars, backend, held, runVars>>

\* names := docs.ColumnNames()
WalkColumnNames ==
    /\ mL.built /\ held.kind = "none"
    /\ held' = [kind |-> "names", columns |-> <<>>, names |-> ColumnNames(mL)]
    /\ UNCHANGED <<mapperVars, optionVars, valuesVars, backend, res, runVars>>

\* the program drops the Model and what it kept
WalkDrop ==
    /\ mL.built
    /\ mL' = NoModel /\ held' = NoHeld /\ res' = [NoResult EXCEPT !.op = "Drop"]
    /\ UNCHANGED <<mR, mJ, optionVars, valuesVars, backend, runVars>>

WalkNext == WalkNewModel \/ WalkIterate \/ WalkColumnNames \/ WalkDrop

SpecWalk == MapperInit /\ [][WalkNext]_vars

\* the exported column fields of a type that are reached from it through
\* exported struct fields that are no columns, each with its dot-joined
\* path
RECURSIVE RefColumnFields(_, _)
RefColumnFields(t, prefix) ==
    UNION { LET f == t.fields[i]
            IN  IF f.PkgPath # "" THEN {}
                ELSE IF f.Type.kind \in {"Column", "PtrColumn", "ColumnName"}
                THEN {<<prefix \o f.Name, f>>}
                ELSE IF f.Type.kind = "struct"
                THEN RefColumnFields(f.Type, prefix \o f.Name \o ".")
                ELSE {} : i \in 1..Len(t.fields) }

\* a NewModel of a declared document type was called last
WalkBuilt == res.op = "NewModel" /\ "T" \in DOMAIN res /\ res.T.ctor = "decl"

\* C25: a NewModel of a type with a column field of the schema that names
\* a serializer other than json panics and leaves no Model; otherwise it
\* returns a Model that records json for exactly the columns whose fields
\* name json, and no serializer for the columns whose fields name none.
C25_SerializerNames ==
    WalkBuilt =>
        \E fields \in {RefColumnFields(TypeOf(res.T), "")} :
            IF \E e \in fields : e[2].Tag.SERIALIZER \notin {"", "json"}
            THEN res.outcome = "panic" /\ ~mL.built
            ELSE /\ res.outcome = "ok" /\ mL.built /\ mL.T = res.T
                 /\ \A e \in fields :
                       \E column \in {String(GetColumnName(mL, e[1]))} :
                           IF e[2].Tag.SERIALIZER = "json"
                           THEN /\ column \in DOMAIN mL.columnSerializers
                                /\ mL.columnSerializers[column] = "json"
                           ELSE column \notin DOMAIN mL.columnSerializers

\* a NewModel that panicked on the serializer xml of a nested column after
\* a column that names json
C25_Witness ==
    /\ WalkBuilt /\ res.outcome = "panic" /\ ~mL.built
    /\ res.T.levels[1] /\ res.T.levels[2] /\ res.T.levels[4] = "xml" /\ res.T.leaf = "json"

\* C26: a NewModel of a type that is no struct panics and leaves no Model;
\* the walker called on an object that is no pointer or a nil pointer
\* returns its error and calls the callback for no field.
C26_InvalidRoot ==
    /\ (res.op = "NewModel" /\ "T" \in DOMAIN res /\ res.T.ctor = "scalar") =>
           res.outcome = "panic" /\ ~mL.built
    /\ (res.op = "iterateFields" /\ "root" \in DOMAIN res
            /\ (~res.root.pointer \/ res.root.nil)) =>
           res.outcome = "error" /\ res.err = ErrNotPointer /\ res.count = 0

\* a NewModel of int panicked
C26_Witness ==
    /\ res.op = "NewModel" /\ "T" \in DOMAIN res /\ res.T = ScalarKey("int")
    /\ res.outcome = "panic" /\ ~mL.built

\* C30: the schema of a Model has exactly one entry for each exported
\* column field reached through exported struct fields that are no
\* columns, under the dot-joined path of the field and pointing to that
\* field; no field that is unexported, below an unexported field or inside
\* a column has an entry; ColumnNames() returns every entry once and
\* nothing else.
C30_SchemaEntries ==
    (mL.built /\ mL.T.ctor = "decl") =>
        \E paths \in {{e[1] : e \in RefColumnFields(TypeOf(mL.T), "")}} :
            /\ DOMAIN mL.fieldPathToColumn = paths
            /\ \A fp \in paths : mL.fieldPathToColumn[fp] = fp
            /\ held.kind = "names" => held.names = [fp \in paths |-> 1]

\* the names of a document asked for whose status and nested age are
\* unexported and have no entry
C30_Witness ==
    /\ mL.built /\ mL.T.ctor = "decl" /\ held.kind = "names"
    /\ ~mL.T.levels[1] /\ mL.T.levels[2]
    /\ DOMAIN held.names = {"ID", "Sub.Name"}

(***************************************************************************)
(* The columns a caller can select in a join and what scan makes of them.  *)
(***************************************************************************)
\* the columns of the components and of the joined Model itself, each with
\* the field path of the joined record it belongs to
SelectableColumns ==
    { <<"Left." \o fp, ModelColumn(mL, fp).name>> : fp \in DOMAIN mL.fieldPathToColumn }
    \cup { <<"Right." \o fp, ModelColumn(mR, fp).name>> : fp \in DOMAIN mR.fieldPathToColumn }
    \cup { <<fp, ModelColumn(mJ, fp).name>> : fp \in DOMAIN mJ.fieldPathToColumn }

\* a value the backend holds in the column behind a field of the joined
\* record: a JSON text behind a serializer, a value of the type of the
\* column otherwise
StoredSample(jfp) ==
    IF String(GetColumnName(mJ, jfp)) \in DOMAIN mJ.columnSerializers
    THEN JsonMarshal(StatusV(<<"T">>))
    ELSE [t |-> mJ.columns[jfp].t, i |-> 1, s |-> <<"a">>]

\* C27: every column of the left Model, of the right Model and of the
\* joined Model's own Columns, selected in the join, comes back under an
\* alias (its Full name) that is the key scan reads the field from and the
\* key of the field's serializer: a row that holds a value under the alias
\* is scanned without error into a record whose field holds that value.
C27_SelectedColumnPopulated ==
    mJ.built =>
        \A c \in SelectableColumns :
            \E out \in {scan(mJ, Full(c[2]) :> StoredSample(c[1]))} :
                /\ out.err = ""
                /\ out.entity[c[1]].val # NoValue
                /\ out.entity[c[1]].val.s = (IF String(GetColumnName(mJ, c[1])) \in DOMAIN mJ.columnSerializers
                                             THEN <<"T">> ELSE <<"a">>)

\* one of the join conditions of a joined Model compares with a literal
JoinLiteral(m) ==
    \E i \in 1..Len(m.config.conditions) : ~m.config.conditions[i].either.isLeft

\* C28: an operation on a joined Model one of whose join conditions
\* compares a column with a literal panics, or returns the error of its
\* own options, and sends no statement; every statement of a joined Model
\* that reaches the backend carries one ON term for each of its join
\* conditions, each the comparison of two columns the caller built.
C28_LiteralJoinConditionFails ==
    (res.model = "J" /\ res.op \in ExecutorOps) =>
        /\ JoinLiteral(mJ) =>
               /\ res.statements = <<>> /\ res.entities = <<>> /\ res.count = 0
               /\ \/ res.outcome = "panic"
                  \/ res.op = "Update" /\ res.outcome = "error" /\ res.updates = <<>>
        /\ \A k \in 1..Len(res.statements) :
               \A j \in 1..Len(res.statements[k].stmt.joins) :
                   \E terms \in {res.statements[k].stmt.joins[j].terms} :
                       /\ Len(terms) = Len(mJ.config.conditions)
                       /\ \A i \in 1..Len(terms) :
                             \E c \in {mJ.config.conditions[i].either} :
                                 /\ c.isLeft
                                 /\ terms[i] = [left |-> Full(c.left.left), op |-> c.left.op,
                                                 right |-> Full(c.left.right)]

\* a List through a join on the names and on an age of 30 panicked
C28_Witness ==
    /\ res.model = "J" /\ res.op = "List" /\ res.outcome = "panic" /\ res.statements = <<>>
    /\ Len(mJ.config.conditions) = 2
    /\ mJ.config.conditions[1].either.isLeft /\ ~mJ.config.conditions[2].either.isLeft

(***************************************************************************)
(* SpecSerial: the program reads and writes the table users through a      *)
(* Model of raw.User, whose status is a json.RawMessage behind the json    *)
(* serializer, with filter and update values that are valid JSON and ones  *)
(* that are not; what the tables held before an operation is kept beside   *)
(* its result.                                                             *)
(***************************************************************************)
\* the status of a teacher and of a student as raw JSON, and a text that is
\* no JSON
RawTeacher == RawV(JsonMarshal(StatusV(<<"T">>)).s)

RawStudent == RawV(JsonMarshal(StatusV(<<"S">>)).s)

RawBroken == RawV(<<"{">>)

\* the arrays behind the slices of the program
SerialHeap == << <<IntV("int", 46), IntV("int", 30)>>, <<RawStudent, RawBroken>> >>

\* the filter lists of the program
SerialQueries ==
    LET age == ModelColumn(mL, "Age")
        status == ModelColumn(mL, "Status")
        older == ColumnCompare(age, OpGte, PlainOperand(IntV("int", 30))).value
        teacher == ColumnCompare(status, OpEq, PlainOperand(RawTeacher)).value
        broken == ColumnCompare(status, OpEq, PlainOperand(RawBroken)).value
    IN  { <<>>, <<older>>, <<teacher>>, <<broken>>,
          <<older, broken>>,
          <<ColumnIn(status, SliceOf(2, 1))>>,
          <<ColumnFuzzyIn(age, SliceOf(1, 1)), ColumnNotIn(status, SliceOf(2, 2)), older>>,
          <<ColumnFuzzyIn(age, SliceOf(1, 2)), broken, ColumnIn(age, SliceOf(1, 1))>>,
          <<ColumnIn(status, SliceOf(2, 2)), ColumnIn(age, SliceOf(1, 2))>>,
          <<ColumnNotIn(status, SliceOf(2, 1)), ColumnFuzzyIn(age, SliceOf(1, 1))>> }

\* the update lists of the program
SerialUpdates ==
    LET age == newUpdateOption(ModelColumn(mL, "Age").name, IntV("int", 50))
        student == newUpdateOption(ModelColumn(mL, "Status").name, RawStudent)
        broken == newUpdateOption(ModelColumn(mL, "Status").name, RawBroken)
    IN  { <<>>, <<age>>, <<student>>, <<broken>>, <<age, broken>> }

SerialInit ==
    /\ mL = NewModel(KRawUser, NoInitial)
    /\ mR = NewModel(KRelation, NoInitial)
    /\ mJ = NoModel
    /\ backend = InitialTables
    /\ res = NoResult
    /\ held = NoHeld
    /\ heap = SerialHeap
    /\ vopt = NoOption /\ got = NoGot /\ OptionIdle
    /\ RunIdle

\* users.Query(queries...).Get(ctx)
SerialGet ==
    \E queries \in SerialQueries :
        \E out \in {ExecutorGet(mL, mL, mR, queries, backend, heap)} :
        /\ res' = [before |-> backend] @@ Result("Get", "L", queries, <<>>, out)
        /\ backend' = out.tables
        /\ UNCHANGED <<mapperVars, optionVars, valuesVars, held, runVars>>

\* users.Query(queries...).List(ctx, ListOptions{})
SerialList ==
    \E queries \in SerialQueries :
        \E out \in {ExecutorList(mL, mL, mR, queries, ListEverything, backend, heap)} :
        /\ res' = [before |-> backend] @@ Result("List", "L", queries, <<>>, out)
        /\ backend' = out.tables
        /\ UNCHANGED <<mapperVars, optionVars, valuesVars, held, runVars>>

\* users.Query(queries...).Update(ctx, opts...)
SerialUpdate ==
    \E queries \in SerialQueries, opts \in SerialUpdates :
        \E out \in {ExecutorUpdate(mL, mL, mR, queries, opts, backend, heap)} :
        /\ res' = [before |-> backend] @@ Result("Update", "L", queries, opts, out)
        /\ backend' = out.tables
        /\ UNCHANGED <<mapperVars, optionVars, valuesVars, held, runVars>>

\* users.Query(queries...).Delete(ctx)
SerialDelete ==
    \E queries \in SerialQueries :
        \E out \in {ExecutorDelete(mL, mL, mR, queries, backend, heap)} :
        /\ res' = [before |-> backend] @@ Result("Delete", "L", queries, <<>>, out)
        /\ backend' = out.tables
        /\ UNCHANGED <<mapperVars, optionVars, valuesVars, held, runVars>>

SerialNext == SerialGet \/ SerialList \/ SerialUpdate \/ SerialDelete

SpecSerial == SerialInit /\ [][SerialNext]_vars

\* the value of the column can not be serialized: the column is behind the
\* json serializer and the value is a RawMessage of no JSON
RefUnserializable(m, name, v) ==
    /\ String(name) \in DOMAIN m.columnSerializers
    /\ v.t = "json.RawMessage" /\ v.s \notin {RawTeacher.s, RawStudent.s}

\* the columns of the filter values of a list that can not be serialized,
\* for the compare options and for the range options
RefBadCompares(m, queries) ==
    { String(queries[i].either.right.name) : i \in
        { i \in 1..Len(queries) :
            /\ queries[i].kind = "OpOption"
            /\ RefUnserializable(m, queries[i].either.right.name,
                                 queries[i].either.right.value) } }

RefBadRanges(m, queries, mem) ==
    { String(queries[i].name) : i \in
        { i \in 1..Len(queries) :
            /\ queries[i].kind = "RangeQuery"
            /\ \E k \in 1..queries[i].values.len :
                  RefUnserializable(m, queries[i].name, mem[queries[i].values.arr][k]) } }

\* the columns of the update values that can not be serialized
RefBadUpdates(m, updates) ==
    { String(updates[i].name) : i \in
        { i \in 1..Len(updates) : RefUnserializable(m, updates[i].name, updates[i].value) } }

\* the operation in res was handed a value it tried to serialize and could
\* not: an update value, or, unless the Update had no option at all, a
\* filter value
SerializeFailed ==
    /\ res.op \in ExecutorOps /\ res.model = "L" /\ "before" \in DOMAIN res
    /\ \/ RefBadUpdates(mL, res.updates) # {}
       \/ /\ res.op = "Update" => res.updates # <<>>
          /\ RefBadCompares(mL, res.queries) \cup RefBadRanges(mL, res.queries, heap) # {}

\* the conditions the filter steps leave on the session of the operation
AppliedConditions ==
    applyFilterOptions(newApplyHelper(GormModel(NewSession, mL.T)), mL, res.queries, heap).db.wheres

\* C29: when a filter value or an update value of a Get, List, Update or
\* Delete can not be serialized, the operation returns the error of
\* serialize, which names the column; it returns no entity and no count,
\* sends no statement, and leaves every table as it was.  An update value
\* fails before the session is asked for; after a filter value failed the
\* later filter steps add no condition: none at all is added when a
\* compare value failed, and only the one Where of the compare options
\* when a range value failed.
C29_SerializeErrorFinal ==
    SerializeFailed =>
        /\ res.outcome = "error"
        /\ \E column \in RefBadUpdates(mL, res.updates) \cup RefBadCompares(mL, res.queries)
                          \cup RefBadRanges(mL, res.queries, heap) :
               res.err = "failed to serialize the value of the column " \o column
        /\ res.statements = <<>> /\ res.entities = <<>> /\ res.count = 0
        /\ backend = res.before
        /\ IF RefBadUpdates(mL, res.updates) # {} THEN res.dbCalls = 0
           ELSE Len(AppliedConditions) =
                   (IF RefBadCompares(mL, res.queries) # {} THEN 0
                    ELSE IF \E i \in 1..Len(res.queries) : res.queries[i].kind = "OpOption"
                    THEN 1 ELSE 0)

\* after rows were updated, a List whose range option holds a text that is
\* no JSON, behind a compare option and before a fuzzy option, returned
\* the error
C29_Witness ==
    /\ SerializeFailed /\ res.op = "List" /\ res.outcome = "error"
    /\ Len(res.queries) = 3 /\ RefBadCompares(mL, res.queries) = {}
    /\ RefBadRanges(mL, res.queries, heap) = {"status"}
    /\ Len(AppliedConditions) = 1
    /\ backend # InitialTables

====
